---- MODULE Spec2Model ----
(***************************************************************************)
(* A model of the myRTOS kernel: the task control blocks, the ready queue, *)
(* the blocked-timeout list, the scheduler, the tick service, the mutex    *)
(* with priority inheritance, the counting semaphore, the message queue,   *)
(* the condition variable and the timer service.                           *)
(*                                                                         *)
(* One CPU.  The task that executes is taskPool.currentTask: the deferred  *)
(* PendSV context switch is taken as soon as the interrupt-disabled region *)
(* that ran scheduleNextTask ends, so the switch is part of the step that  *)
(* runs scheduleNextTask.  A region between ENTER_CRITICAL_SECTION (or     *)
(* __disable_irq) and the matching exit is one step; between two such      *)
(* regions the tick interrupt may fire.                                    *)
(***************************************************************************)
EXTENDS Integers, Sequences, FiniteSets, TLC

\* ------------------------------------------------------------------------
\* Program constants
\* ------------------------------------------------------------------------
TASK_LOWEST_PRIORITY == 255

TASK_HIGHEST_PRIORITY == 0

TASK_NO_WAIT == 0

\* 0xffffffffUL in task.h.  The model keeps the largest number the checker
\* represents: all that matters is that no behaviour has that many ticks.
TASK_MAX_WAIT == 2147483647

IDLE_TASK_PRIORITY == TASK_LOWEST_PRIORITY

TIMER_TASK_PRIORITY == TASK_HIGHEST_PRIORITY

NO_DEFAULT_PRIORITY == -1

NULL == "NULL"

\* ------------------------------------------------------------------------
\* Bounds of the model
\* ------------------------------------------------------------------------
\* number of tick interrupts in a behaviour of Spec and of SpecNested
MaxTicks == 3

\* number of tick interrupts in a behaviour of SpecSem
MaxSemTicks == 2

\* number of kernel calls, other than taskSleep, one task makes in a behaviour
MaxOps == 2

\* kernel calls of the task that nests two mutexes, and of the other tasks,
\* in SpecNested
MaxNestedOps == 4

MaxContenderOps == 1

\* number of tick interrupts in a behaviour of SpecMsg
MaxMsgTicks == 1

\* number of message-queue calls one task makes in a behaviour of SpecMsg
MaxMsgOps == 2

\* number of tick interrupts in a behaviour of SpecCond
MaxCondTicks == 1

\* number of mutex and condition-variable calls one task makes in SpecCond
MaxCondOps == 3

\* tick interrupts and taskYield calls per task in the yield loop
MaxYieldTicks == 4
MaxYields == 4

\* tick interrupts, taskSleep calls per task, sleep lengths and task
\* priorities of the sleeping tasks
MaxSleepTicks == 4
MaxSleepOps == 2
SleepChoices == {1, 2}
SleepPriorities == {1, 2}

\* tick interrupts and kernel calls per task where tasks lock two mutexes
\* without waiting or without timeout
MaxInheritTicks == 1
MaxInheritOps == 3

\* tick interrupts, timerStart calls of a task, the timers and the interval
\* arguments of the application that starts timers
MaxTimerTicks == 3
MaxTimerOps == 1
TwoTimers == {"R1", "R2"}
TimerIntervals == {1, 2}

\* the finite timeout tasks pass to blocking calls and to taskSleep
ShortWait == 1

UserTasks == {"T1", "T2", "T3"}

AllTasks == UserTasks \cup {"timerTask", "idleTask"}

Mutexes == {"M1", "M2"}

\* the mutex the tasks of Spec share
SingleMutex == {"M1"}

Semaphores == {"S1"}

\* SEMAPHORE_DEFINE(S1, InitialCount, MaxCount)
InitialCount == 1

MaxCount == 1

Timers == {"R1"}

MsgQueues == {"Q1"}

\* MSG_QUEUE_DEFINE(Q1, QueueLength, ItemSize)
QueueLength == 2

ItemSize == 2

CondVars == {"CV1"}

WaitChoices == {TASK_NO_WAIT, ShortWait, TASK_MAX_WAIT}

\* the order in which main() starts the user tasks before schedulerStart
StartOrder == <<"T1", "T2", "T3">>

VARIABLES
    task,                \* task[t]: the TCB of t (taskHandleType)
    taskPool,            \* readyQueue, blockedQueue, currentTask
    mutex,               \* mutex[m]: mutexHandleType
    sem,                 \* sem[x]: semaphoreHandleType
    msgq,                \* msgq[q]: msgQueueHandleType, with the items sent and
                         \* received so far (history)
    cond,                \* cond[c]: condVarHandleType
    wakeRecord,          \* wakeRecord[t]: the reason of the wake that made t
                         \* READY since it last blocked (history)
    timer,               \* timer[r]: timerNodeType
    timerList,           \* the list of running timers, head first
    timeoutHandlerQueue, \* handlers of expired timers, head first
    pc,                  \* pc[t]: the statement t executes next
    arg,                 \* arg[t]: arguments, locals and return code of t's call
    holds,               \* holds[t]: the mutexes whose lock t holds (history)
    opsLeft,             \* opsLeft[t]: kernel calls t may still make
    tickCount,           \* tick interrupts so far
    woken,               \* tasks woken above the running task since the last
                         \* scheduleNextTask (history)
    semHist              \* successful gives minus successful takes, and whether
                         \* a semaphoreTake ever had to wait (history)

vars == <<task, taskPool, mutex, sem, msgq, cond, wakeRecord, timer, timerList,
          timeoutHandlerQueue, pc, arg, holds, opsLeft, tickCount, woken, semHist>>

kernelVars == <<task, taskPool, mutex, sem, msgq, cond, wakeRecord, timer, timerList,
                timeoutHandlerQueue>>

\* ------------------------------------------------------------------------
\* The kernel state as one record, so that kernel functions compose
\* ------------------------------------------------------------------------
K ==
    [task |-> task, taskPool |-> taskPool, mutex |-> mutex, sem |-> sem,
     msgq |-> msgq, cond |-> cond, wakeRecord |-> wakeRecord,
     timer |-> timer, timerList |-> timerList,
     timeoutHandlerQueue |-> timeoutHandlerQueue]

Commit(s) ==
    /\ task' = s.task
    /\ taskPool' = s.taskPool
    /\ mutex' = s.mutex
    /\ sem' = s.sem
    /\ msgq' = s.msgq
    /\ cond' = s.cond
    /\ wakeRecord' = s.wakeRecord
    /\ timer' = s.timer
    /\ timerList' = s.timerList
    /\ timeoutHandlerQueue' = s.timeoutHandlerQueue

\* ------------------------------------------------------------------------
\* Task queue: a list of nodes, each naming a task
\* ------------------------------------------------------------------------
RECURSIVE RemoveFirst(_, _)
RemoveFirst(q, t) ==
    IF q = <<>> THEN <<>>
    ELSE IF Head(q) = t THEN Tail(q)
    ELSE <<Head(q)>> \o RemoveFirst(Tail(q), t)

InQueue(q, t) == \E i \in 1..Len(q) : q[i] = t

\* the new node goes behind every node whose task has a priority value <= t's
taskQueueAdd(tcb, q, t) ==
    LET le == {i \in 1..Len(q) : tcb[q[i]].priority <= tcb[t].priority}
        k == IF le = {} THEN 0 ELSE CHOOSE i \in le : \A j \in le : j <= i
    IN SubSeq(q, 1, k) \o <<t>> \o SubSeq(q, k + 1, Len(q))

taskQueuePeek(q) == IF q = <<>> THEN NULL ELSE Head(q)

taskQueueEmpty(q) == q = <<>>

\* ------------------------------------------------------------------------
\* Task operations
\* ------------------------------------------------------------------------
taskStart(s, t) ==
    [s EXCEPT !.task[t].status = "READY",
              !.taskPool.readyQueue = taskQueueAdd(s.task, @, t)]

\* the part of taskBlock before its taskYield
taskBlock(s, t, reason, ticks) ==
    [s EXCEPT !.task[t].status = "BLOCKED",
              !.task[t].blockedReason = reason,
              !.task[t].remainingSleepTicks = ticks,
              !.wakeRecord[t] = "WAKEUP_REASON_NONE",
              !.taskPool.blockedQueue = taskQueueAdd(s.task, @, t)]

taskSetReady(s, t, wakeupReason) ==
    LET tcb == [s.task EXCEPT ![t].status = "READY",
                              ![t].wakeupReason = wakeupReason,
                              ![t].remainingSleepTicks = 0]
    IN [s EXCEPT
          !.task = tcb,
          !.taskPool.blockedQueue = RemoveFirst(@, t),
          !.mutex = [m \in DOMAIN s.mutex |->
                        [s.mutex[m] EXCEPT !.waitQueue = RemoveFirst(@, t)]],
          !.sem = [x \in DOMAIN s.sem |->
                        [s.sem[x] EXCEPT !.waitQueue = RemoveFirst(@, t)]],
          !.msgq = [q \in DOMAIN s.msgq |->
                        [s.msgq[q] EXCEPT
                            !.producerWaitQueue = RemoveFirst(@, t),
                            !.consumerWaitQueue = RemoveFirst(@, t)]],
          !.cond = [c \in DOMAIN s.cond |->
                        [s.cond[c] EXCEPT !.waitQueue = RemoveFirst(@, t)]],
          !.wakeRecord[t] = IF s.task[t].status = "BLOCKED"
                            THEN wakeupReason ELSE @,
          !.taskPool.readyQueue = taskQueueAdd(tcb, @, t)]

\* ------------------------------------------------------------------------
\* Scheduler
\* ------------------------------------------------------------------------
\* faulty variant of scheduleNextTask: the preempted task keeps status RUNNING
scheduleNextTask_StaysRunning(s) ==
    IF taskQueueEmpty(s.taskPool.readyQueue) THEN s
    ELSE
      LET cur == s.taskPool.currentTask
          nextReadyTask == taskQueuePeek(s.taskPool.readyQueue)
          running == s.task[cur].status = "RUNNING"
          requeued ==
              IF running
              THEN [s EXCEPT !.taskPool.readyQueue = taskQueueAdd(s.task, @, cur)]
              ELSE s
          nextTask == Head(requeued.taskPool.readyQueue)
      IN IF running /\ ~(s.task[nextReadyTask].priority <= s.task[cur].priority)
         THEN s
         ELSE [requeued EXCEPT
                 !.taskPool.readyQueue = Tail(@),
                 !.taskPool.currentTask = nextTask,
                 !.task[nextTask].status = "RUNNING"]

\* faulty variant of scheduleNextTask: the running task gives way only to a
\* task of strictly better priority
scheduleNextTask_NeverPreempts(s) ==
    IF taskQueueEmpty(s.taskPool.readyQueue) THEN s
    ELSE
      LET cur == s.taskPool.currentTask
          running == s.task[cur].status = "RUNNING"
          nextTask == Head(s.taskPool.readyQueue)
      IN IF running
         THEN s
         ELSE [s EXCEPT
                 !.taskPool.readyQueue = Tail(@),
                 !.taskPool.currentTask = nextTask,
                 !.task[nextTask].status = "RUNNING"]

scheduleNextTask_StrictlyBetter(s) ==
    IF taskQueueEmpty(s.taskPool.readyQueue) THEN s
    ELSE
      LET cur == s.taskPool.currentTask
          nextReadyTask == taskQueuePeek(s.taskPool.readyQueue)
          running == s.task[cur].status = "RUNNING"
          requeued ==
              IF running
              THEN [s EXCEPT !.task[cur].status = "READY",
                             !.taskPool.readyQueue = taskQueueAdd(s.task, @, cur)]
              ELSE s
          nextTask == Head(requeued.taskPool.readyQueue)
      IN IF running /\ ~(s.task[nextReadyTask].priority < s.task[cur].priority)
         THEN s
         ELSE [requeued EXCEPT
                 !.taskPool.readyQueue = Tail(@),
                 !.taskPool.currentTask = nextTask,
                 !.task[nextTask].status = "RUNNING"]

scheduleNextTask(s) ==
    IF taskQueueEmpty(s.taskPool.readyQueue) THEN s
    ELSE
      LET cur == s.taskPool.currentTask
          nextReadyTask == taskQueuePeek(s.taskPool.readyQueue)
          running == s.task[cur].status = "RUNNING"
          requeued ==
              IF running
              THEN [s EXCEPT !.task[cur].status = "READY",
                             !.taskPool.readyQueue = taskQueueAdd(s.task, @, cur)]
              ELSE s
          nextTask == Head(requeued.taskPool.readyQueue)
      IN IF running /\ ~(s.task[nextReadyTask].priority <= s.task[cur].priority)
         THEN s
         ELSE [requeued EXCEPT
                 !.taskPool.readyQueue = Tail(@),
                 !.taskPool.currentTask = nextTask,
                 !.task[nextTask].status = "RUNNING"]

RECURSIVE checkTimeoutFrom(_, _)
checkTimeoutFrom(s, nodes) ==
    IF nodes = <<>> THEN s
    ELSE
      LET t == Head(nodes)
          dec == [s EXCEPT !.task[t].remainingSleepTicks = @ - 1]
          s1 == IF s.task[t].remainingSleepTicks > 0
                THEN IF dec.task[t].remainingSleepTicks = 0
                     THEN IF s.task[t].blockedReason = "SLEEP"
                          THEN taskSetReady(dec, t, "SLEEP_TIME_TIMEOUT")
                          ELSE taskSetReady(dec, t, "WAIT_TIMEOUT")
                     ELSE dec
                ELSE s
      IN checkTimeoutFrom(s1, Tail(nodes))

checkTimeout(s) == checkTimeoutFrom(s, s.taskPool.blockedQueue)

\* ------------------------------------------------------------------------
\* Software timers
\* ------------------------------------------------------------------------
timeoutHandlerQueuePush(s, handler) ==
    [s EXCEPT !.timeoutHandlerQueue = Append(@, handler)]

timerListNodeAdd(s, r) ==
    [s EXCEPT !.timerList = <<r>> \o @]

timerListNodeDelete(s, r) ==
    [s EXCEPT !.timerList = RemoveFirst(@, r)]

timerStart(s, r, intervalTicks) ==
    IF s.timer[r].isRunning
    THEN s
    ELSE timerListNodeAdd([s EXCEPT !.timer[r].isRunning = TRUE,
                                    !.timer[r].ticksToExpire = intervalTicks,
                                    !.timer[r].intervalTicks = intervalTicks,
                                    !.timer[r].age = 0], r)

timerStop(s, r) ==
    IF s.timer[r].isRunning
    THEN timerListNodeDelete([s EXCEPT !.timer[r].isRunning = FALSE], r)
    ELSE s

RECURSIVE processTimersFrom(_, _)
processTimersFrom(s, nodes) ==
    IF nodes = <<>> THEN s
    ELSE
      LET r == Head(nodes)
          dec == IF s.timer[r].ticksToExpire > 0
                 THEN [s EXCEPT !.timer[r].ticksToExpire = @ - 1]
                 ELSE s
          pushed == timeoutHandlerQueuePush(dec, r)
          wokenUp == IF pushed.task["timerTask"].status = "BLOCKED"
                   THEN taskSetReady(pushed, "timerTask", "TIMER_TIMEOUT")
                   ELSE pushed
          reloaded == [wokenUp EXCEPT !.timer[r].ticksToExpire = wokenUp.timer[r].intervalTicks]
          s1 == IF dec.timer[r].ticksToExpire = 0
                THEN IF reloaded.timer[r].mode = "TIMER_MODE_SINGLE_SHOT"
                     THEN timerStop(reloaded, r)
                     ELSE reloaded
                ELSE dec
      IN processTimersFrom(s1, Tail(nodes))

processTimers(s) == processTimersFrom(s, s.timerList)

\* ------------------------------------------------------------------------
\* Initial state: main() has started the user tasks
\* ------------------------------------------------------------------------
InitTcb(p) ==
    [priority |-> p, status |-> "READY", blockedReason |-> "BLOCK_REASON_NONE",
     wakeupReason |-> "WAKEUP_REASON_NONE", remainingSleepTicks |-> 0]

definedPriority ==
    [t \in AllTasks |->
        CASE t = "T1" -> 1
          [] t = "T2" -> 2
          [] t = "T3" -> 3
          [] t = "timerTask" -> TIMER_TASK_PRIORITY
          [] t = "idleTask" -> IDLE_TASK_PRIORITY]

NoArg ==
    [m |-> NULL, w |-> 0, ret |-> "NONE", nextTask |-> NULL, reg |-> 0, given |-> FALSE,
     item |-> <<>>, cv |-> NULL, waitEnd |-> "WAKEUP_REASON_NONE",
     temp |-> <<>>, handler |-> NULL]

InitTimer(mode) ==
    [isRunning |-> FALSE, ticksToExpire |-> 0, intervalTicks |-> 0, mode |-> mode,
     age |-> 0]   \* age: ticks since the timer was started (history)

TimerModes == {"TIMER_MODE_SINGLE_SHOT", "TIMER_MODE_PERIODIC"}

InitMutex ==
    [locked |-> FALSE, ownerTask |-> NULL,
     ownerDefaultPriority |-> NO_DEFAULT_PRIORITY, waitQueue |-> <<>>]

\* the buffer is indexed from 0, as the C array
InitMsgQueue ==
    [buffer |-> [i \in 0..(QueueLength * ItemSize - 1) |-> 0],
     queueLength |-> QueueLength, itemSize |-> ItemSize,
     readIndex |-> 0, writeIndex |-> 0, itemCount |-> 0,
     producerWaitQueue |-> <<>>, consumerWaitQueue |-> <<>>,
     sent |-> <<>>, received |-> <<>>]

RECURSIVE StartAll(_, _)
StartAll(s, order) ==
    IF order = <<>> THEN s ELSE StartAll(taskStart(s, Head(order)), Tail(order))

InitKernel ==
    StartAll([task |-> [t \in AllTasks |-> InitTcb(definedPriority[t])],
              taskPool |-> [readyQueue |-> <<>>, blockedQueue |-> <<>>,
                            currentTask |-> NULL],
              mutex |-> [m \in Mutexes |-> InitMutex],
              sem |-> [x \in Semaphores |->
                          [count |-> InitialCount, maxCount |-> MaxCount, waitQueue |-> <<>>]],
              msgq |-> [q \in MsgQueues |-> InitMsgQueue],
              cond |-> [c \in CondVars |-> [pMutex |-> "M1", waitQueue |-> <<>>]],
              wakeRecord |-> [t \in AllTasks |-> "WAKEUP_REASON_NONE"],
              timer |-> [r \in Timers |-> InitTimer("TIMER_MODE_SINGLE_SHOT")],
              timerList |-> <<>>,
              timeoutHandlerQueue |-> <<>>],
             StartOrder)

InitCommon ==
    /\ task = InitKernel.task
    /\ taskPool = InitKernel.taskPool
    /\ mutex = InitKernel.mutex
    /\ sem = InitKernel.sem
    /\ msgq = InitKernel.msgq
    /\ cond = InitKernel.cond
    /\ wakeRecord = InitKernel.wakeRecord
    /\ timerList = InitKernel.timerList
    /\ timeoutHandlerQueue = InitKernel.timeoutHandlerQueue
    /\ pc = [t \in AllTasks |-> "entry"]
    /\ arg = [t \in AllTasks |-> NoArg]
    /\ holds = [t \in AllTasks |-> {}]
    /\ tickCount = 0
    /\ woken = {}
    /\ semHist = [net |-> 0, waited |-> FALSE]

Init ==
    /\ InitCommon
    /\ timer = InitKernel.timer
    /\ opsLeft = [t \in AllTasks |-> MaxOps]

\* in kernel state s the READY task r has a better priority than the RUNNING task
WakesAbove(s, r) ==
    LET cur == s.taskPool.currentTask
    IN /\ s.task[r].status = "READY"
       /\ s.task[cur].status = "RUNNING"
       /\ s.task[r].priority < s.task[cur].priority

\* ------------------------------------------------------------------------
\* Scheduler entry points and the tick interrupt
\* ------------------------------------------------------------------------
schedulerStart ==
    /\ taskPool.currentTask = NULL
    /\ LET s1 == taskStart(K, "timerTask")
           s2 == taskStart(s1, "idleTask")
           first == Head(s2.taskPool.readyQueue)
       IN Commit([s2 EXCEPT !.taskPool.readyQueue = Tail(@),
                            !.taskPool.currentTask = first,
                            !.task[first].status = "RUNNING"])
    /\ UNCHANGED <<pc, arg, holds, opsLeft, tickCount, woken, semHist>>

Started == taskPool.currentTask # NULL

\* main() starts a timer before it starts the scheduler
mainTimerStart(r) ==
    /\ taskPool.currentTask = NULL
    /\ ~timer[r].isRunning
    /\ Commit(timerStart(K, r, ShortWait))
    /\ UNCHANGED <<pc, arg, holds, opsLeft, tickCount, woken, semHist>>

\* the tick handler up to its call of scheduleNextTask
tickService(s) ==
    LET s0 == [s EXCEPT !.timer = [r \in DOMAIN @ |->
                                      IF @[r].isRunning THEN [@[r] EXCEPT !.age = @ + 1]
                                      ELSE @[r]]]
        s1 == processTimers(s0)
    IN IF ~taskQueueEmpty(s1.taskPool.blockedQueue) THEN checkTimeout(s1) ELSE s1

SYSTICK_HANDLER(maxTicks) ==
    /\ Started
    /\ tickCount < maxTicks
    /\ Commit(scheduleNextTask(tickService(K)))
    /\ tickCount' = tickCount + 1
    /\ UNCHANGED <<pc, arg, holds, opsLeft, semHist>>
    /\ woken' = {}

\* t executes: it is the task the scheduler selected last
Executes(t) == Started /\ taskPool.currentTask = t

\* taskYield, reached at location loc; the call continues at location next
taskYield(t, loc, next) ==
    /\ Executes(t)
    /\ pc[t] = loc
    /\ Commit(scheduleNextTask(K))
    /\ pc' = [pc EXCEPT ![t] = next]
    /\ woken' = {}
    /\ UNCHANGED <<arg, holds, opsLeft, tickCount, semHist>>

\* A call returns to the task's loop
Return(t, loc) ==
    /\ Executes(t)
    /\ pc[t] = loc
    /\ pc' = [pc EXCEPT ![t] = "entry"]
    /\ arg' = [arg EXCEPT ![t] = NoArg]
    /\ UNCHANGED <<kernelVars, holds, opsLeft, tickCount, woken, semHist>>

AtEntry(t) ==
    /\ Executes(t)
    /\ t \in UserTasks
    /\ pc[t] = "entry"

CanCall(t) == AtEntry(t) /\ opsLeft[t] > 0

\* ------------------------------------------------------------------------
\* timerTask
\* ------------------------------------------------------------------------
\* the loop of timerTask while no timer runs: the queue stays empty, so the
\* test and taskBlock, up to its taskYield, are one step
timerTaskBlock ==
    /\ Executes("timerTask")
    /\ pc["timerTask"] = "entry"
    /\ timeoutHandlerQueue = <<>>
    /\ Commit(taskBlock(K, "timerTask", "WAIT_FOR_TIMER_TIMEOUT", 0))
    /\ pc' = [pc EXCEPT !["timerTask"] = "timer_yield"]
    /\ UNCHANGED <<arg, holds, opsLeft, tickCount, woken, semHist>>

timerTaskYield == taskYield("timerTask", "timer_yield", "entry")

\* The loop of timerTask statement by statement: timerTaskFunction and
\* timeoutHandlerQueuePop have no interrupt-disabled region, so the tick may
\* push a handler between any two of these steps.
\* if (timeoutHandlerQueue.head != NULL)
timerTaskTest ==
    /\ Executes("timerTask")
    /\ pc["timerTask"] = "entry"
    /\ pc' = [pc EXCEPT !["timerTask"] =
                 IF timeoutHandlerQueue # <<>> THEN "pop_read" ELSE "timer_block"]
    /\ UNCHANGED <<kernelVars, arg, holds, opsLeft, tickCount, woken, semHist>>

\* temp = head->nextNode; timeoutHandler = head->timeoutHandler.  temp is
\* kept as the nodes it leads to at this moment: empty when it is NULL
timeoutHandlerQueuePopRead ==
    /\ Executes("timerTask")
    /\ pc["timerTask"] = "pop_read"
    /\ arg' = [arg EXCEPT !["timerTask"].temp = Tail(timeoutHandlerQueue),
                          !["timerTask"].handler = Head(timeoutHandlerQueue)]
    /\ pc' = [pc EXCEPT !["timerTask"] = "pop_head"]
    /\ UNCHANGED <<kernelVars, holds, opsLeft, tickCount, woken, semHist>>

\* free(head); head = temp.  A NULL temp empties the queue, whatever was
\* linked behind the freed node since it was read; any other temp leads to
\* all the nodes behind the head
timeoutHandlerQueuePopHead ==
    /\ Executes("timerTask")
    /\ pc["timerTask"] = "pop_head"
    /\ timeoutHandlerQueue' = IF arg["timerTask"].temp = <<>> THEN <<>>
                              ELSE Tail(timeoutHandlerQueue)
    /\ pc' = [pc EXCEPT !["timerTask"] = "handler"]
    /\ UNCHANGED <<task, taskPool, mutex, sem, msgq, cond, wakeRecord, timer, timerList,
                   arg, holds, opsLeft, tickCount, woken, semHist>>

\* timeoutHandler(): the handler runs and returns
timerTaskHandler ==
    /\ Executes("timerTask")
    /\ pc["timerTask"] = "handler"
    /\ pc' = [pc EXCEPT !["timerTask"] = "entry"]
    /\ arg' = [arg EXCEPT !["timerTask"] = NoArg]
    /\ UNCHANGED <<kernelVars, holds, opsLeft, tickCount, woken, semHist>>

\* taskBlock(&timerTask, WAIT_FOR_TIMER_TIMEOUT, 0), up to its taskYield
timerTaskWait ==
    /\ Executes("timerTask")
    /\ pc["timerTask"] = "timer_block"
    /\ Commit(taskBlock(K, "timerTask", "WAIT_FOR_TIMER_TIMEOUT", 0))
    /\ pc' = [pc EXCEPT !["timerTask"] = "timer_yield"]
    /\ UNCHANGED <<arg, holds, opsLeft, tickCount, woken, semHist>>

\* ------------------------------------------------------------------------
\* timerStart called by a task.  It has no interrupt-disabled region: the
\* tick may walk timerList between the statements of timerListNodeAdd.
\* ------------------------------------------------------------------------
\* main() starts a timer before it starts the scheduler
mainTimerStartTicks(r, n) ==
    /\ taskPool.currentTask = NULL
    /\ ~timer[r].isRunning
    /\ Commit(timerStart(K, r, n))
    /\ UNCHANGED <<pc, arg, holds, opsLeft, tickCount, woken, semHist>>

\* if (isRunning) return; isRunning = true; ticksToExpire = intervalTicks = n.
\* The node is not on timerList yet, the tick does not see these fields.
timerStartCall(t, r, n) ==
    /\ CanCall(t)
    /\ opsLeft' = [opsLeft EXCEPT ![t] = @ - 1]
    /\ IF timer[r].isRunning
       THEN /\ pc' = [pc EXCEPT ![t] = "timer_ret"]
            /\ UNCHANGED <<kernelVars, arg>>
       ELSE /\ timer' = [timer EXCEPT ![r].isRunning = TRUE,
                                      ![r].ticksToExpire = n,
                                      ![r].intervalTicks = n,
                                      ![r].age = 0]
            /\ arg' = [arg EXCEPT ![t].m = r]
            /\ pc' = [pc EXCEPT ![t] = "add_read"]
            /\ UNCHANGED <<task, taskPool, mutex, sem, msgq, cond, wakeRecord, timerList,
                           timeoutHandlerQueue>>
    /\ UNCHANGED <<holds, tickCount, woken, semHist>>

\* tempNode = pTimerList->head
timerListNodeAddRead(t) ==
    /\ Executes(t)
    /\ pc[t] = "add_read"
    /\ arg' = [arg EXCEPT ![t].nextTask = IF timerList = <<>> THEN NULL ELSE Head(timerList)]
    /\ pc' = [pc EXCEPT ![t] = "add_head"]
    /\ UNCHANGED <<kernelVars, holds, opsLeft, tickCount, woken, semHist>>

\* pTimerList->head = pTimerNode.  The new node leads nowhere yet; tempNode
\* leads to the nodes from it on if it is still linked, and to itself alone
\* if the tick has unlinked it (timerListNodeDelete clears its nextNode).
\* The timer is on timerList from here on: its age counts from this step.
timerListNodeAddHead(t) ==
    /\ Executes(t)
    /\ pc[t] = "add_head"
    /\ LET x == arg[t].nextTask
           chain == IF x = NULL THEN <<>>
                    ELSE IF InQueue(timerList, x) THEN timerList
                    ELSE <<x>>
       IN arg' = [arg EXCEPT ![t].temp = chain]
    /\ timerList' = <<arg[t].m>>
    /\ timer' = [timer EXCEPT ![arg[t].m].age = 0]
    /\ pc' = [pc EXCEPT ![t] = "add_link"]
    /\ UNCHANGED <<task, taskPool, mutex, sem, msgq, cond, wakeRecord,
                   timeoutHandlerQueue, holds, opsLeft, tickCount, woken, semHist>>

\* pTimerList->head->nextNode = tempNode.  If the tick has emptied the list
\* head is NULL and the store goes through a null pointer: it faults, or
\* it is ignored by the bus and the list stays empty.
timerListNodeAddLink(t) ==
    /\ Executes(t)
    /\ pc[t] = "add_link"
    /\ IF timerList = <<>>
       THEN /\ \E outcome \in {"fault", "timer_ret"} : pc' = [pc EXCEPT ![t] = outcome]
            /\ UNCHANGED timerList
       ELSE /\ timerList' = <<Head(timerList)>> \o arg[t].temp
            /\ pc' = [pc EXCEPT ![t] = "timer_ret"]
    /\ UNCHANGED <<task, taskPool, mutex, sem, msgq, cond, wakeRecord, timer,
                   timeoutHandlerQueue, arg, holds, opsLeft, tickCount, woken, semHist>>

timerStartReturn(t) == Return(t, "timer_ret")

\* a fault handler has stopped the system
Faulted == \E t \in AllTasks : pc[t] = "fault"

\* ------------------------------------------------------------------------
\* taskSleep
\* ------------------------------------------------------------------------
taskSleep(t) ==
    /\ AtEntry(t)
    /\ Commit(taskBlock(K, t, "SLEEP", ShortWait))
    /\ pc' = [pc EXCEPT ![t] = "sleep_yield"]
    /\ UNCHANGED <<arg, holds, opsLeft, tickCount, woken, semHist>>

taskSleepYield(t) == taskYield(t, "sleep_yield", "sleep_ret")

taskSleepReturn(t) == Return(t, "sleep_ret")

\* ------------------------------------------------------------------------
\* Mutex
\* ------------------------------------------------------------------------
\* priority inheritance, at the head of mutexLock's critical section
inheritPriority(s, m, t) ==
    LET owner == s.mutex[m].ownerTask
    IN IF owner # NULL /\ s.task[t].priority < s.task[owner].priority
       THEN [s EXCEPT
               !.mutex[m].ownerDefaultPriority =
                   IF @ = NO_DEFAULT_PRIORITY THEN s.task[owner].priority ELSE @,
               !.task[owner].priority = s.task[t].priority]
       ELSE s

\* mutexLock from its entry to the end of its first critical section
mutexLock(t, m, w) ==
    /\ CanCall(t)
    /\ opsLeft' = [opsLeft EXCEPT ![t] = @ - 1]
    /\ LET s1 == inheritPriority(K, m, t)
       IN IF ~s1.mutex[m].locked
          THEN /\ Commit([s1 EXCEPT !.mutex[m].locked = TRUE,
                                    !.mutex[m].ownerTask = t])
               /\ pc' = [pc EXCEPT ![t] = "lock_ret"]
               /\ arg' = [arg EXCEPT ![t] = [NoArg EXCEPT !.m = m, !.w = w, !.ret = "RET_SUCCESS"]]
               /\ holds' = [holds EXCEPT ![t] = @ \cup {m}]
          ELSE IF w = TASK_NO_WAIT /\ s1.mutex[m].locked
          THEN /\ Commit(s1)
               /\ pc' = [pc EXCEPT ![t] = "lock_ret"]
               /\ arg' = [arg EXCEPT ![t] = [NoArg EXCEPT !.m = m, !.w = w, !.ret = "RET_BUSY"]]
               /\ UNCHANGED holds
          ELSE /\ Commit([s1 EXCEPT !.mutex[m].waitQueue = taskQueueAdd(s1.task, @, t)])
               /\ pc' = [pc EXCEPT ![t] = "lock_block"]
               /\ arg' = [arg EXCEPT ![t] = [NoArg EXCEPT !.m = m, !.w = w]]
               /\ UNCHANGED holds
    /\ UNCHANGED <<tickCount, woken, semHist>>

\* taskBlock(currentTask, WAIT_FOR_MUTEX, waitTicks), up to its taskYield
mutexLockBlock(t) ==
    /\ Executes(t)
    /\ pc[t] = "lock_block"
    /\ Commit(taskBlock(K, t, "WAIT_FOR_MUTEX", arg[t].w))
    /\ pc' = [pc EXCEPT ![t] = "lock_yield"]
    /\ UNCHANGED <<arg, holds, opsLeft, tickCount, woken, semHist>>

mutexLockYield(t) == taskYield(t, "lock_yield", "lock_wake")

\* faulty variant of mutexLockResult: every wake-up counts as an acquisition
mutexLockResult_AnyWake(s, m, t) == "RET_SUCCESS"

\* the return code mutexLock computes after the wake-up
mutexLockResult(s, m, t) ==
    IF s.task[t].wakeupReason = "MUTEX_LOCKED" /\ s.mutex[m].ownerTask = t
    THEN "RET_SUCCESS"
    ELSE "RET_TIMEOUT"

\* the critical section of mutexLock after the wake-up
mutexLockWake(t) ==
    /\ Executes(t)
    /\ pc[t] = "lock_wake"
    /\ LET m == arg[t].m
           retCode == mutexLockResult(K, m, t)
       IN /\ arg' = [arg EXCEPT ![t].ret = retCode]
          /\ holds' = [holds EXCEPT ![t] = IF retCode = "RET_SUCCESS" THEN @ \cup {m} ELSE @]
    /\ pc' = [pc EXCEPT ![t] = "lock_ret"]
    /\ UNCHANGED <<kernelVars, opsLeft, tickCount, woken, semHist>>

mutexLockReturn(t) == Return(t, "lock_ret")

\* the priority mutexUnlock gives back to the owner
restorePriority(s, m, t) ==
    IF s.mutex[m].ownerDefaultPriority # NO_DEFAULT_PRIORITY
    THEN [s EXCEPT !.task[t].priority = s.mutex[m].ownerDefaultPriority,
                   !.mutex[m].ownerDefaultPriority = NO_DEFAULT_PRIORITY]
    ELSE s

\* faulty variant of handOver: the mutex stays locked when nobody waits
handOver_StaysLocked(s, m) ==
    LET nextOwner == taskQueuePeek(s.mutex[m].waitQueue)
        s1 == [s EXCEPT !.mutex[m].waitQueue = IF @ = <<>> THEN @ ELSE Tail(@),
                        !.mutex[m].ownerTask = nextOwner]
    IN IF nextOwner # NULL
       THEN taskSetReady(s1, nextOwner, "MUTEX_LOCKED")
       ELSE s1

\* the next owner is taken off the waitQueue and woken, or the mutex is freed
handOver(s, m) ==
    LET nextOwner == taskQueuePeek(s.mutex[m].waitQueue)
        s1 == [s EXCEPT !.mutex[m].waitQueue = IF @ = <<>> THEN @ ELSE Tail(@),
                        !.mutex[m].ownerTask = nextOwner]
    IN IF nextOwner # NULL
       THEN taskSetReady(s1, nextOwner, "MUTEX_LOCKED")
       ELSE [s1 EXCEPT !.mutex[m].locked = FALSE]

callerOwns_Anyone(s, m, t) == s.mutex[m].locked

\* pMutex->ownerTask == currentTask
callerOwns(s, m, t) == s.mutex[m].ownerTask = t

\* the critical section of mutexUnlock
mutexUnlock(t, m) ==
    /\ CanCall(t)
    /\ opsLeft' = [opsLeft EXCEPT ![t] = @ - 1]
    /\ IF callerOwns(K, m, t)
       THEN IF mutex[m].locked
            THEN LET s1 == restorePriority(K, m, t)
                     nextOwner == taskQueuePeek(s1.mutex[m].waitQueue)
                     s3 == handOver(s1, m)
                     contextSwitchRequired ==
                         /\ nextOwner # NULL
                         /\ s3.task[nextOwner].priority
                                <= s3.task[s3.taskPool.currentTask].priority
                 IN /\ Commit(s3)
                    /\ pc' = [pc EXCEPT ![t] = IF contextSwitchRequired
                                               THEN "unlock_yield" ELSE "unlock_ret"]
                    /\ arg' = [a \in AllTasks |->
                                  IF a = t THEN [NoArg EXCEPT !.m = m, !.ret = "RET_SUCCESS"]
                                  ELSE IF a = nextOwner THEN [arg[a] EXCEPT !.given = TRUE]
                                  ELSE arg[a]]
                    /\ holds' = [holds EXCEPT ![t] = @ \ {m}]
                    /\ woken' = IF nextOwner # NULL /\ WakesAbove(s3, nextOwner)
                                THEN woken \cup {nextOwner} ELSE woken
            ELSE /\ pc' = [pc EXCEPT ![t] = "unlock_ret"]
                 /\ arg' = [arg EXCEPT ![t] = [NoArg EXCEPT !.m = m, !.ret = "RET_NOTLOCKED"]]
                 /\ UNCHANGED <<kernelVars, holds, woken>>
       ELSE /\ pc' = [pc EXCEPT ![t] = "unlock_ret"]
            /\ arg' = [arg EXCEPT ![t] = [NoArg EXCEPT !.m = m, !.ret = "RET_NOTOWNER"]]
            /\ UNCHANGED <<kernelVars, holds, woken>>
    /\ UNCHANGED <<tickCount, semHist>>

mutexUnlockYield(t) == taskYield(t, "unlock_yield", "unlock_ret")

mutexUnlockReturn(t) == Return(t, "unlock_ret")

\* ------------------------------------------------------------------------
\* The application tasks lock and unlock mutexes and sleep
\* ------------------------------------------------------------------------
Next ==
    \/ schedulerStart
    \/ SYSTICK_HANDLER(MaxTicks)
    \/ timerTaskBlock
    \/ timerTaskYield
    \/ \E t \in UserTasks : taskSleep(t)
    \/ \E t \in UserTasks : taskSleepYield(t)
    \/ \E t \in UserTasks : taskSleepReturn(t)
    \/ \E t \in UserTasks, m \in SingleMutex, w \in WaitChoices : mutexLock(t, m, w)
    \/ \E t \in UserTasks : mutexLockBlock(t)
    \/ \E t \in UserTasks : mutexLockYield(t)
    \/ \E t \in UserTasks : mutexLockWake(t)
    \/ \E t \in UserTasks : mutexLockReturn(t)
    \/ \E t \in UserTasks, m \in SingleMutex : mutexUnlock(t, m)
    \/ \E t \in UserTasks : mutexUnlockYield(t)
    \/ \E t \in UserTasks : mutexUnlockReturn(t)

Spec == Init /\ [][Next]_vars

\* ------------------------------------------------------------------------
\* The application tasks nest two mutexes: a task locks a mutex it does not
\* hold, waiting without timeout, and unlocks a mutex it holds
\* ------------------------------------------------------------------------
InitNested ==
    /\ InitCommon
    /\ timer \in [Timers -> {InitTimer(mode) : mode \in TimerModes}]
    /\ opsLeft = [t \in AllTasks |-> IF t = "T3" THEN MaxNestedOps ELSE MaxContenderOps]

NextNested ==
    \/ schedulerStart
    \/ \E r \in Timers : mainTimerStart(r)
    \/ timerTaskTest
    \/ timeoutHandlerQueuePopRead
    \/ timeoutHandlerQueuePopHead
    \/ timerTaskHandler
    \/ SYSTICK_HANDLER(MaxTicks)
    \/ timerTaskWait
    \/ timerTaskYield
    \/ \E t \in UserTasks : taskSleep(t)
    \/ \E t \in UserTasks : taskSleepYield(t)
    \/ \E t \in UserTasks : taskSleepReturn(t)
    \/ \E t \in UserTasks, m \in Mutexes :
            m \notin holds[t] /\ mutexLock(t, m, TASK_MAX_WAIT)
    \/ \E t \in UserTasks : mutexLockBlock(t)
    \/ \E t \in UserTasks : mutexLockYield(t)
    \/ \E t \in UserTasks : mutexLockWake(t)
    \/ \E t \in UserTasks : mutexLockReturn(t)
    \/ \E t \in UserTasks, m \in Mutexes :
            m \in holds[t] /\ mutexUnlock(t, m)
    \/ \E t \in UserTasks : mutexUnlockYield(t)
    \/ \E t \in UserTasks : mutexUnlockReturn(t)

SpecNested == InitNested /\ [][NextNested]_vars

\* ------------------------------------------------------------------------
\* Semaphore.  semaphoreTake and semaphoreGive have no interrupt-disabled
\* region: every access to the semaphore is a step of its own, and count--
\* and count++ are a load followed by a store.
\* ------------------------------------------------------------------------
\* semaphoreTake from its entry to the test of count
semaphoreTake(t, x, w) ==
    /\ CanCall(t)
    /\ opsLeft' = [opsLeft EXCEPT ![t] = @ - 1]
    /\ arg' = [arg EXCEPT ![t] =
                 [NoArg EXCEPT !.m = x, !.w = w,
                               !.ret = IF sem[x].count = 0 /\ w = TASK_NO_WAIT
                                       THEN "RET_BUSY" ELSE "NONE"]]
    /\ pc' = [pc EXCEPT ![t] = IF sem[x].count # 0 THEN "take_load"
                               ELSE IF w = TASK_NO_WAIT THEN "take_ret"
                               ELSE "take_add"]
    /\ UNCHANGED <<kernelVars, holds, tickCount, woken, semHist>>

\* pSem->count--, the load
semaphoreTakeLoad(t) ==
    /\ Executes(t)
    /\ pc[t] = "take_load"
    /\ arg' = [arg EXCEPT ![t].reg = sem[arg[t].m].count]
    /\ pc' = [pc EXCEPT ![t] = "take_store"]
    /\ UNCHANGED <<kernelVars, holds, opsLeft, tickCount, woken, semHist>>

\* pSem->count--, the store; return RET_SUCCESS
semaphoreTakeStore(t) ==
    /\ Executes(t)
    /\ pc[t] = "take_store"
    /\ Commit([K EXCEPT !.sem[arg[t].m].count = arg[t].reg - 1])
    /\ arg' = [arg EXCEPT ![t].ret = "RET_SUCCESS"]
    /\ pc' = [pc EXCEPT ![t] = "take_ret"]
    /\ semHist' = [semHist EXCEPT !.net = @ - 1]
    /\ UNCHANGED <<holds, opsLeft, tickCount, woken>>

\* taskQueueAdd(&pSem->waitQueue, currentTask)
semaphoreTakeAdd(t) ==
    /\ Executes(t)
    /\ pc[t] = "take_add"
    /\ Commit([K EXCEPT !.sem[arg[t].m].waitQueue = taskQueueAdd(task, @, t)])
    /\ pc' = [pc EXCEPT ![t] = "take_block"]
    /\ semHist' = [semHist EXCEPT !.waited = TRUE]
    /\ UNCHANGED <<arg, holds, opsLeft, tickCount, woken>>

\* taskBlock(currentTask, WAIT_FOR_SEMAPHORE, waitTicks), up to its taskYield
semaphoreTakeBlock(t) ==
    /\ Executes(t)
    /\ pc[t] = "take_block"
    /\ Commit(taskBlock(K, t, "WAIT_FOR_SEMAPHORE", arg[t].w))
    /\ pc' = [pc EXCEPT ![t] = "take_yield"]
    /\ UNCHANGED <<arg, holds, opsLeft, tickCount, woken, semHist>>

semaphoreTakeYield(t) == taskYield(t, "take_yield", "take_wake")

\* the test of wakeupReason after the wake-up
semaphoreTakeWake(t) ==
    /\ Executes(t)
    /\ pc[t] = "take_wake"
    /\ LET ok == task[t].wakeupReason = "SEMAPHORE_TAKEN"
       IN /\ arg' = [arg EXCEPT ![t].ret = IF ok THEN "RET_SUCCESS" ELSE "RET_TIMEOUT"]
          /\ semHist' = [semHist EXCEPT !.net = IF ok THEN @ - 1 ELSE @]
    /\ pc' = [pc EXCEPT ![t] = "take_ret"]
    /\ UNCHANGED <<kernelVars, holds, opsLeft, tickCount, woken>>

semaphoreTakeReturn(t) == Return(t, "take_ret")

\* semaphoreGive from its entry to the test of count
semaphoreGive(t, x) ==
    /\ CanCall(t)
    /\ opsLeft' = [opsLeft EXCEPT ![t] = @ - 1]
    /\ arg' = [arg EXCEPT ![t] =
                 [NoArg EXCEPT !.m = x,
                               !.ret = IF sem[x].count # sem[x].maxCount
                                       THEN "NONE" ELSE "RET_NOSEM"]]
    /\ pc' = [pc EXCEPT ![t] = IF sem[x].count # sem[x].maxCount
                               THEN "give_get" ELSE "give_ret"]
    /\ UNCHANGED <<kernelVars, holds, tickCount, woken, semHist>>

\* nextTask = taskQueueGet(&pSem->waitQueue)
semaphoreGiveGet(t) ==
    /\ Executes(t)
    /\ pc[t] = "give_get"
    /\ LET x == arg[t].m
           nextTask == taskQueuePeek(sem[x].waitQueue)
       IN /\ Commit([K EXCEPT !.sem[x].waitQueue = IF @ = <<>> THEN @ ELSE Tail(@)])
          /\ arg' = IF nextTask # NULL
                    THEN [arg EXCEPT ![t].nextTask = nextTask, ![nextTask].given = TRUE]
                    ELSE arg
          /\ pc' = [pc EXCEPT ![t] = IF nextTask # NULL THEN "give_set" ELSE "give_load"]
    /\ UNCHANGED <<holds, opsLeft, tickCount, woken, semHist>>

\* taskSetReady(nextTask, SEMAPHORE_TAKEN); return RET_SUCCESS
semaphoreGiveSetReady(t) ==
    /\ Executes(t)
    /\ pc[t] = "give_set"
    /\ LET s1 == taskSetReady(K, arg[t].nextTask, "SEMAPHORE_TAKEN")
       IN /\ Commit(s1)
          /\ woken' = IF WakesAbove(s1, arg[t].nextTask)
                      THEN woken \cup {arg[t].nextTask} ELSE woken
    /\ arg' = [arg EXCEPT ![t].ret = "RET_SUCCESS"]
    /\ pc' = [pc EXCEPT ![t] = "give_ret"]
    /\ semHist' = [semHist EXCEPT !.net = @ + 1]
    /\ UNCHANGED <<holds, opsLeft, tickCount>>

\* pSem->count++, the load
semaphoreGiveLoad(t) ==
    /\ Executes(t)
    /\ pc[t] = "give_load"
    /\ arg' = [arg EXCEPT ![t].reg = sem[arg[t].m].count]
    /\ pc' = [pc EXCEPT ![t] = "give_store"]
    /\ UNCHANGED <<kernelVars, holds, opsLeft, tickCount, woken, semHist>>

\* pSem->count++, the store; return RET_SUCCESS
semaphoreGiveStore(t) ==
    /\ Executes(t)
    /\ pc[t] = "give_store"
    /\ Commit([K EXCEPT !.sem[arg[t].m].count = arg[t].reg + 1])
    /\ arg' = [arg EXCEPT ![t].ret = "RET_SUCCESS"]
    /\ pc' = [pc EXCEPT ![t] = "give_ret"]
    /\ semHist' = [semHist EXCEPT !.net = @ + 1]
    /\ UNCHANGED <<holds, opsLeft, tickCount, woken>>

semaphoreGiveReturn(t) == Return(t, "give_ret")

\* ------------------------------------------------------------------------
\* The application tasks take and give a semaphore and sleep
\* ------------------------------------------------------------------------
NextSem ==
    \/ schedulerStart
    \/ SYSTICK_HANDLER(MaxSemTicks)
    \/ timerTaskBlock
    \/ timerTaskYield
    \/ \E t \in UserTasks : taskSleep(t)
    \/ \E t \in UserTasks : taskSleepYield(t)
    \/ \E t \in UserTasks : taskSleepReturn(t)
    \/ \E t \in UserTasks, x \in Semaphores, w \in WaitChoices : semaphoreTake(t, x, w)
    \/ \E t \in UserTasks : semaphoreTakeLoad(t)
    \/ \E t \in UserTasks : semaphoreTakeStore(t)
    \/ \E t \in UserTasks : semaphoreTakeAdd(t)
    \/ \E t \in UserTasks : semaphoreTakeBlock(t)
    \/ \E t \in UserTasks : semaphoreTakeYield(t)
    \/ \E t \in UserTasks : semaphoreTakeWake(t)
    \/ \E t \in UserTasks : semaphoreTakeReturn(t)
    \/ \E t \in UserTasks, x \in Semaphores : semaphoreGive(t, x)
    \/ \E t \in UserTasks : semaphoreGiveGet(t)
    \/ \E t \in UserTasks : semaphoreGiveSetReady(t)
    \/ \E t \in UserTasks : semaphoreGiveLoad(t)
    \/ \E t \in UserTasks : semaphoreGiveStore(t)
    \/ \E t \in UserTasks : semaphoreGiveReturn(t)

InitSem ==
    /\ InitCommon
    /\ timer = InitKernel.timer
    /\ opsLeft = [t \in AllTasks |-> MaxOps]

SpecSem == InitSem /\ [][NextSem]_vars

\* ------------------------------------------------------------------------
\* Message queue.  msgQueueSend and msgQueueReceive have no interrupt-disabled
\* region: every statement is a step of its own, and itemCount++ and
\* itemCount-- are a load followed by a store.
\* ------------------------------------------------------------------------
msgQueueFull(s, q) == s.msgq[q].itemCount = s.msgq[q].queueLength

msgQueueEmpty(s, q) == s.msgq[q].itemCount = 0

\* memcpy(dst + at, src, n) on a buffer indexed from 0
memcpyIn(buffer, at, src, n) ==
    [i \in DOMAIN buffer |-> IF i >= at /\ i < at + n THEN src[i - at + 1] ELSE buffer[i]]

\* memcpy(dst, src + at, n)
memcpyOut(buffer, at, n) == [i \in 1..n |-> buffer[at + i - 1]]

advanceIndex(index, itemSize, queueLength) == (index + itemSize) % (queueLength * itemSize)

TaskNumber == [t \in UserTasks |-> CASE t = "T1" -> 1 [] t = "T2" -> 2 [] t = "T3" -> 3]

\* the item a task sends: ItemSize bytes, different for every send of a behaviour
NextItem(t) == [i \in 1..ItemSize |-> IF i = 1 THEN TaskNumber[t] ELSE opsLeft[t]]

\* msgQueueSend from its entry to the test of msgQueueFull
msgQueueSend(t, q, w) ==
    /\ CanCall(t)
    /\ opsLeft' = [opsLeft EXCEPT ![t] = @ - 1]
    /\ arg' = [arg EXCEPT ![t] =
                 [NoArg EXCEPT !.m = q, !.w = w, !.item = NextItem(t),
                               !.ret = IF msgQueueFull(K, q) /\ w = TASK_NO_WAIT
                                       THEN "-ENOSPACE" ELSE "NONE"]]
    /\ pc' = [pc EXCEPT ![t] = IF ~msgQueueFull(K, q) THEN "send_copy"
                               ELSE IF w = TASK_NO_WAIT THEN "send_ret"
                               ELSE "send_add"]
    /\ UNCHANGED <<kernelVars, holds, tickCount, woken, semHist>>

\* msgQueueBufferWrite: the memcpy
msgQueueSendCopy(t) ==
    /\ Executes(t)
    /\ pc[t] = "send_copy"
    /\ LET q == arg[t].m
       IN Commit([K EXCEPT !.msgq[q].buffer =
                     memcpyIn(@, msgq[q].writeIndex, arg[t].item, msgq[q].itemSize)])
    /\ pc' = [pc EXCEPT ![t] = "send_index"]
    /\ UNCHANGED <<arg, holds, opsLeft, tickCount, woken, semHist>>

\* msgQueueBufferWrite: writeIndex = (writeIndex + itemSize) % (queueLength * itemSize)
msgQueueSendIndex(t) ==
    /\ Executes(t)
    /\ pc[t] = "send_index"
    /\ LET q == arg[t].m
       IN Commit([K EXCEPT !.msgq[q].writeIndex =
                     advanceIndex(@, msgq[q].itemSize, msgq[q].queueLength)])
    /\ pc' = [pc EXCEPT ![t] = "send_load"]
    /\ UNCHANGED <<arg, holds, opsLeft, tickCount, woken, semHist>>

\* msgQueueBufferWrite: itemCount++, the load
msgQueueSendLoad(t) ==
    /\ Executes(t)
    /\ pc[t] = "send_load"
    /\ arg' = [arg EXCEPT ![t].reg = msgq[arg[t].m].itemCount]
    /\ pc' = [pc EXCEPT ![t] = "send_store"]
    /\ UNCHANGED <<kernelVars, holds, opsLeft, tickCount, woken, semHist>>

\* msgQueueBufferWrite: itemCount++, the store
msgQueueSendStore(t) ==
    /\ Executes(t)
    /\ pc[t] = "send_store"
    /\ Commit([K EXCEPT !.msgq[arg[t].m].itemCount = arg[t].reg + 1])
    /\ pc' = [pc EXCEPT ![t] = "send_get"]
    /\ UNCHANGED <<arg, holds, opsLeft, tickCount, woken, semHist>>

\* msgQueueBufferWrite: consumer = taskQueueGet(&consumerWaitQueue); without a
\* consumer msgQueueSend returns SUCCESS
msgQueueSendGet(t) ==
    /\ Executes(t)
    /\ pc[t] = "send_get"
    /\ LET q == arg[t].m
           consumer == taskQueuePeek(msgq[q].consumerWaitQueue)
       IN /\ Commit([K EXCEPT
                       !.msgq[q].consumerWaitQueue = IF @ = <<>> THEN @ ELSE Tail(@),
                       !.msgq[q].sent = IF consumer = NULL
                                        THEN Append(@, arg[t].item) ELSE @])
          /\ arg' = [arg EXCEPT ![t].nextTask = consumer,
                                ![t].ret = IF consumer = NULL THEN "SUCCESS" ELSE @]
          /\ pc' = [pc EXCEPT ![t] = IF consumer # NULL THEN "send_set" ELSE "send_ret"]
    /\ UNCHANGED <<holds, opsLeft, tickCount, woken, semHist>>

\* msgQueueBufferWrite: taskSetReady(consumer, MSG_QUEUE_DATA_AVAILABLE);
\* msgQueueSend returns SUCCESS
msgQueueSendSetReady(t) ==
    /\ Executes(t)
    /\ pc[t] = "send_set"
    /\ LET q == arg[t].m
           s1 == taskSetReady(K, arg[t].nextTask, "MSG_QUEUE_DATA_AVAILABLE")
       IN /\ Commit([s1 EXCEPT !.msgq[q].sent = Append(@, arg[t].item)])
          /\ woken' = IF WakesAbove(s1, arg[t].nextTask)
                      THEN woken \cup {arg[t].nextTask} ELSE woken
    /\ arg' = [arg EXCEPT ![t].ret = "SUCCESS"]
    /\ pc' = [pc EXCEPT ![t] = "send_ret"]
    /\ UNCHANGED <<holds, opsLeft, tickCount, semHist>>

\* taskQueueAdd(&pQueueHandle->producerWaitQueue, currentTask)
msgQueueSendAdd(t) ==
    /\ Executes(t)
    /\ pc[t] = "send_add"
    /\ Commit([K EXCEPT !.msgq[arg[t].m].producerWaitQueue = taskQueueAdd(task, @, t)])
    /\ pc' = [pc EXCEPT ![t] = "send_block"]
    /\ UNCHANGED <<arg, holds, opsLeft, tickCount, woken, semHist>>

\* taskBlock(currentTask, WAIT_FOR_MSG_QUEUE_SPACE, waitTicks), up to its taskYield
msgQueueSendBlock(t) ==
    /\ Executes(t)
    /\ pc[t] = "send_block"
    /\ Commit(taskBlock(K, t, "WAIT_FOR_MSG_QUEUE_SPACE", arg[t].w))
    /\ pc' = [pc EXCEPT ![t] = "send_yield"]
    /\ UNCHANGED <<arg, holds, opsLeft, tickCount, woken, semHist>>

msgQueueSendYield(t) == taskYield(t, "send_yield", "send_wake")

\* the test of wakeupReason and of msgQueueFull after the wake-up
msgQueueSendWake(t) ==
    /\ Executes(t)
    /\ pc[t] = "send_wake"
    /\ LET ok == /\ task[t].wakeupReason = "MSG_QUEUE_SPACE_AVAILABE"
                 /\ ~msgQueueFull(K, arg[t].m)
       IN /\ arg' = [arg EXCEPT ![t].ret = IF ok THEN @ ELSE "-ETIMEOUT"]
          /\ pc' = [pc EXCEPT ![t] = IF ok THEN "send_copy" ELSE "send_ret"]
    /\ UNCHANGED <<kernelVars, holds, opsLeft, tickCount, woken, semHist>>

msgQueueSendReturn(t) == Return(t, "send_ret")

\* msgQueueReceive from its entry to the test of msgQueueEmpty
msgQueueReceive(t, q, w) ==
    /\ CanCall(t)
    /\ opsLeft' = [opsLeft EXCEPT ![t] = @ - 1]
    /\ arg' = [arg EXCEPT ![t] =
                 [NoArg EXCEPT !.m = q, !.w = w,
                               !.ret = IF msgQueueEmpty(K, q) /\ w = TASK_NO_WAIT
                                       THEN "-ENODATA" ELSE "NONE"]]
    /\ pc' = [pc EXCEPT ![t] = IF ~msgQueueEmpty(K, q) THEN "recv_copy"
                               ELSE IF w = TASK_NO_WAIT THEN "recv_ret"
                               ELSE "recv_add"]
    /\ UNCHANGED <<kernelVars, holds, tickCount, woken, semHist>>

\* msgQueueBufferRead: the memcpy
msgQueueReceiveCopy(t) ==
    /\ Executes(t)
    /\ pc[t] = "recv_copy"
    /\ LET q == arg[t].m
       IN arg' = [arg EXCEPT ![t].item =
                     memcpyOut(msgq[q].buffer, msgq[q].readIndex, msgq[q].itemSize)]
    /\ pc' = [pc EXCEPT ![t] = "recv_index"]
    /\ UNCHANGED <<kernelVars, holds, opsLeft, tickCount, woken, semHist>>

\* msgQueueBufferRead: readIndex = (readIndex + itemSize) % (queueLength * itemSize)
msgQueueReceiveIndex(t) ==
    /\ Executes(t)
    /\ pc[t] = "recv_index"
    /\ LET q == arg[t].m
       IN Commit([K EXCEPT !.msgq[q].readIndex =
                     advanceIndex(@, msgq[q].itemSize, msgq[q].queueLength)])
    /\ pc' = [pc EXCEPT ![t] = "recv_load"]
    /\ UNCHANGED <<arg, holds, opsLeft, tickCount, woken, semHist>>

\* msgQueueBufferRead: itemCount--, the load
msgQueueReceiveLoad(t) ==
    /\ Executes(t)
    /\ pc[t] = "recv_load"
    /\ arg' = [arg EXCEPT ![t].reg = msgq[arg[t].m].itemCount]
    /\ pc' = [pc EXCEPT ![t] = "recv_store"]
    /\ UNCHANGED <<kernelVars, holds, opsLeft, tickCount, woken, semHist>>

\* msgQueueBufferRead: itemCount--, the store
msgQueueReceiveStore(t) ==
    /\ Executes(t)
    /\ pc[t] = "recv_store"
    /\ Commit([K EXCEPT !.msgq[arg[t].m].itemCount = arg[t].reg - 1])
    /\ pc' = [pc EXCEPT ![t] = "recv_get"]
    /\ UNCHANGED <<arg, holds, opsLeft, tickCount, woken, semHist>>

\* msgQueueBufferRead: producer = taskQueueGet(&producerWaitQueue); without a
\* producer msgQueueReceive returns SUCCESS
msgQueueReceiveGet(t) ==
    /\ Executes(t)
    /\ pc[t] = "recv_get"
    /\ LET q == arg[t].m
           producer == taskQueuePeek(msgq[q].producerWaitQueue)
       IN /\ Commit([K EXCEPT
                       !.msgq[q].producerWaitQueue = IF @ = <<>> THEN @ ELSE Tail(@),
                       !.msgq[q].received = IF producer = NULL
                                            THEN Append(@, arg[t].item) ELSE @])
          /\ arg' = [arg EXCEPT ![t].nextTask = producer,
                                ![t].ret = IF producer = NULL THEN "SUCCESS" ELSE @]
          /\ pc' = [pc EXCEPT ![t] = IF producer # NULL THEN "recv_set" ELSE "recv_ret"]
    /\ UNCHANGED <<holds, opsLeft, tickCount, woken, semHist>>

\* msgQueueBufferRead: taskSetReady(producer, MSG_QUEUE_SPACE_AVAILABE);
\* msgQueueReceive returns SUCCESS
msgQueueReceiveSetReady(t) ==
    /\ Executes(t)
    /\ pc[t] = "recv_set"
    /\ LET q == arg[t].m
           s1 == taskSetReady(K, arg[t].nextTask, "MSG_QUEUE_SPACE_AVAILABE")
       IN /\ Commit([s1 EXCEPT !.msgq[q].received = Append(@, arg[t].item)])
          /\ woken' = IF WakesAbove(s1, arg[t].nextTask)
                      THEN woken \cup {arg[t].nextTask} ELSE woken
    /\ arg' = [arg EXCEPT ![t].ret = "SUCCESS"]
    /\ pc' = [pc EXCEPT ![t] = "recv_ret"]
    /\ UNCHANGED <<holds, opsLeft, tickCount, semHist>>

\* taskQueueAdd(&pQueueHandle->consumerWaitQueue, currentTask)
msgQueueReceiveAdd(t) ==
    /\ Executes(t)
    /\ pc[t] = "recv_add"
    /\ Commit([K EXCEPT !.msgq[arg[t].m].consumerWaitQueue = taskQueueAdd(task, @, t)])
    /\ pc' = [pc EXCEPT ![t] = "recv_block"]
    /\ UNCHANGED <<arg, holds, opsLeft, tickCount, woken, semHist>>

\* taskBlock(currentTask, WAIT_FOR_MSG_QUEUE_DATA, waitTicks), up to its taskYield
msgQueueReceiveBlock(t) ==
    /\ Executes(t)
    /\ pc[t] = "recv_block"
    /\ Commit(taskBlock(K, t, "WAIT_FOR_MSG_QUEUE_DATA", arg[t].w))
    /\ pc' = [pc EXCEPT ![t] = "recv_yield"]
    /\ UNCHANGED <<arg, holds, opsLeft, tickCount, woken, semHist>>

msgQueueReceiveYield(t) == taskYield(t, "recv_yield", "recv_wake")

\* the test of wakeupReason and of msgQueueEmpty after the wake-up
msgQueueReceiveWake(t) ==
    /\ Executes(t)
    /\ pc[t] = "recv_wake"
    /\ LET ok == /\ task[t].wakeupReason = "MSG_QUEUE_DATA_AVAILABLE"
                 /\ ~msgQueueEmpty(K, arg[t].m)
       IN /\ arg' = [arg EXCEPT ![t].ret = IF ok THEN @ ELSE "-ETIMEOUT"]
          /\ pc' = [pc EXCEPT ![t] = IF ok THEN "recv_copy" ELSE "recv_ret"]
    /\ UNCHANGED <<kernelVars, holds, opsLeft, tickCount, woken, semHist>>

msgQueueReceiveReturn(t) == Return(t, "recv_ret")

\* ------------------------------------------------------------------------
\* The application tasks send to and receive from a message queue and sleep
\* ------------------------------------------------------------------------
NextMsg ==
    \/ schedulerStart
    \/ SYSTICK_HANDLER(MaxMsgTicks)
    \/ timerTaskBlock
    \/ timerTaskYield
    \/ \E t \in UserTasks : taskSleep(t)
    \/ \E t \in UserTasks : taskSleepYield(t)
    \/ \E t \in UserTasks : taskSleepReturn(t)
    \/ \E t \in UserTasks, q \in MsgQueues, w \in WaitChoices : msgQueueSend(t, q, w)
    \/ \E t \in UserTasks : msgQueueSendCopy(t)
    \/ \E t \in UserTasks : msgQueueSendIndex(t)
    \/ \E t \in UserTasks : msgQueueSendLoad(t)
    \/ \E t \in UserTasks : msgQueueSendStore(t)
    \/ \E t \in UserTasks : msgQueueSendGet(t)
    \/ \E t \in UserTasks : msgQueueSendSetReady(t)
    \/ \E t \in UserTasks : msgQueueSendAdd(t)
    \/ \E t \in UserTasks : msgQueueSendBlock(t)
    \/ \E t \in UserTasks : msgQueueSendYield(t)
    \/ \E t \in UserTasks : msgQueueSendWake(t)
    \/ \E t \in UserTasks : msgQueueSendReturn(t)
    \/ \E t \in UserTasks, q \in MsgQueues, w \in WaitChoices : msgQueueReceive(t, q, w)
    \/ \E t \in UserTasks : msgQueueReceiveCopy(t)
    \/ \E t \in UserTasks : msgQueueReceiveIndex(t)
    \/ \E t \in UserTasks : msgQueueReceiveLoad(t)
    \/ \E t \in UserTasks : msgQueueReceiveStore(t)
    \/ \E t \in UserTasks : msgQueueReceiveGet(t)
    \/ \E t \in UserTasks : msgQueueReceiveSetReady(t)
    \/ \E t \in UserTasks : msgQueueReceiveAdd(t)
    \/ \E t \in UserTasks : msgQueueReceiveBlock(t)
    \/ \E t \in UserTasks : msgQueueReceiveYield(t)
    \/ \E t \in UserTasks : msgQueueReceiveWake(t)
    \/ \E t \in UserTasks : msgQueueReceiveReturn(t)

InitMsg ==
    /\ InitCommon
    /\ timer = InitKernel.timer
    /\ opsLeft = [t \in AllTasks |-> MaxMsgOps]

SpecMsg == InitMsg /\ [][NextMsg]_vars

\* ------------------------------------------------------------------------
\* Condition variable.  condVarWait, condVarSignal and condVarBroadcast have
\* no interrupt-disabled region of their own; the mutexUnlock and mutexLock
\* that condVarWait calls keep theirs.
\* ------------------------------------------------------------------------
\* condVarWait from its entry to the end of the critical section of the
\* mutexUnlock it calls
condVarWait(t, c, w) ==
    /\ CanCall(t)
    /\ cond[c].pMutex # NULL
    /\ cond[c].pMutex \in holds[t]
    /\ opsLeft' = [opsLeft EXCEPT ![t] = @ - 1]
    /\ LET m == cond[c].pMutex
           owned == mutex[m].ownerTask = t /\ mutex[m].locked
           s1 == restorePriority(K, m, t)
           nextOwner == IF owned THEN taskQueuePeek(s1.mutex[m].waitQueue) ELSE NULL
           s3 == IF owned THEN handOver(s1, m) ELSE K
           contextSwitchRequired ==
               /\ nextOwner # NULL
               /\ s3.task[nextOwner].priority <= s3.task[s3.taskPool.currentTask].priority
       IN /\ Commit(s3)
          /\ pc' = [pc EXCEPT ![t] = IF contextSwitchRequired
                                     THEN "wait_unlock_yield" ELSE "wait_add"]
          /\ arg' = [a \in AllTasks |->
                        IF a = t THEN [NoArg EXCEPT !.m = m, !.cv = c, !.w = w]
                        ELSE IF a = nextOwner THEN [arg[a] EXCEPT !.given = TRUE]
                        ELSE arg[a]]
          /\ holds' = [holds EXCEPT ![t] = IF owned THEN @ \ {m} ELSE @]
          /\ woken' = IF nextOwner # NULL /\ WakesAbove(s3, nextOwner)
                      THEN woken \cup {nextOwner} ELSE woken
    /\ UNCHANGED <<tickCount, semHist>>

\* the taskYield at the end of the mutexUnlock that condVarWait calls
condVarWaitUnlockYield(t) == taskYield(t, "wait_unlock_yield", "wait_add")

\* taskQueueAdd(&pCondVar->waitQueue, currentTask)
condVarWaitAdd(t) ==
    /\ Executes(t)
    /\ pc[t] = "wait_add"
    /\ Commit([K EXCEPT !.cond[arg[t].cv].waitQueue = taskQueueAdd(task, @, t)])
    /\ pc' = [pc EXCEPT ![t] = "wait_block"]
    /\ UNCHANGED <<arg, holds, opsLeft, tickCount, woken, semHist>>

\* taskBlock(currentTask, WAIT_FOR_COND_VAR, waitTicks), up to its taskYield
condVarWaitBlock(t) ==
    /\ Executes(t)
    /\ pc[t] = "wait_block"
    /\ Commit(taskBlock(K, t, "WAIT_FOR_COND_VAR", arg[t].w))
    /\ pc' = [pc EXCEPT ![t] = "wait_yield"]
    /\ UNCHANGED <<arg, holds, opsLeft, tickCount, woken, semHist>>

condVarWaitYield(t) == taskYield(t, "wait_yield", "wait_lock")

\* mutexLock(pCondVar->pMutex, TASK_MAX_WAIT) after the wake-up: its first
\* critical section.  waitEnd keeps the reason of the wake that ended the wait
\* on the condition variable (history).
condVarWaitLock(t) ==
    /\ Executes(t)
    /\ pc[t] = "wait_lock"
    /\ LET m == arg[t].m
           s1 == inheritPriority(K, m, t)
       IN IF ~s1.mutex[m].locked
          THEN /\ Commit([s1 EXCEPT !.mutex[m].locked = TRUE,
                                    !.mutex[m].ownerTask = t])
               /\ pc' = [pc EXCEPT ![t] = "wait_result"]
               /\ holds' = [holds EXCEPT ![t] = @ \cup {m}]
          ELSE /\ Commit([s1 EXCEPT !.mutex[m].waitQueue = taskQueueAdd(s1.task, @, t)])
               /\ pc' = [pc EXCEPT ![t] = "wait_lock_block"]
               /\ UNCHANGED holds
    /\ arg' = [arg EXCEPT ![t].waitEnd = wakeRecord[t]]
    /\ UNCHANGED <<opsLeft, tickCount, woken, semHist>>

\* taskBlock(currentTask, WAIT_FOR_MUTEX, TASK_MAX_WAIT) of that mutexLock
condVarWaitLockBlock(t) ==
    /\ Executes(t)
    /\ pc[t] = "wait_lock_block"
    /\ Commit(taskBlock(K, t, "WAIT_FOR_MUTEX", TASK_MAX_WAIT))
    /\ pc' = [pc EXCEPT ![t] = "wait_lock_yield"]
    /\ UNCHANGED <<arg, holds, opsLeft, tickCount, woken, semHist>>

condVarWaitLockYield(t) == taskYield(t, "wait_lock_yield", "wait_lock_wake")

\* the critical section of that mutexLock after its wake-up; condVarWait
\* ignores the return code
condVarWaitLockWake(t) ==
    /\ Executes(t)
    /\ pc[t] = "wait_lock_wake"
    /\ LET m == arg[t].m
           retCode == mutexLockResult(K, m, t)
       IN holds' = [holds EXCEPT ![t] = IF retCode = "RET_SUCCESS" THEN @ \cup {m} ELSE @]
    /\ pc' = [pc EXCEPT ![t] = "wait_result"]
    /\ UNCHANGED <<kernelVars, arg, opsLeft, tickCount, woken, semHist>>

\* the test of wakeupReason that gives condVarWait's result
condVarWaitResult(t) ==
    /\ Executes(t)
    /\ pc[t] = "wait_result"
    /\ arg' = [arg EXCEPT ![t].ret = IF task[t].wakeupReason = "WAIT_TIMEOUT"
                                     THEN "false" ELSE "true"]
    /\ pc' = [pc EXCEPT ![t] = "wait_ret"]
    /\ UNCHANGED <<kernelVars, holds, opsLeft, tickCount, woken, semHist>>

condVarWaitReturn(t) == Return(t, "wait_ret")

\* condVarSignal: nextSignalTask = taskQueueGet(&pCondVar->waitQueue)
condVarSignal(t, c) ==
    /\ CanCall(t)
    /\ opsLeft' = [opsLeft EXCEPT ![t] = @ - 1]
    /\ LET nextSignalTask == taskQueuePeek(cond[c].waitQueue)
       IN /\ Commit([K EXCEPT !.cond[c].waitQueue = IF @ = <<>> THEN @ ELSE Tail(@)])
          /\ arg' = [a \in AllTasks |->
                        IF a = t
                        THEN [NoArg EXCEPT !.cv = c, !.nextTask = nextSignalTask,
                                           !.ret = IF nextSignalTask = NULL
                                                   THEN "false" ELSE "NONE"]
                        ELSE IF a = nextSignalTask THEN [arg[a] EXCEPT !.given = TRUE]
                        ELSE arg[a]]
          /\ pc' = [pc EXCEPT ![t] = IF nextSignalTask # NULL
                                     THEN "signal_set" ELSE "signal_ret"]
    /\ UNCHANGED <<holds, tickCount, woken, semHist>>

\* taskSetReady(nextSignalTask, COND_VAR_SIGNALLED); return true
condVarSignalSetReady(t) ==
    /\ Executes(t)
    /\ pc[t] = "signal_set"
    /\ LET s1 == taskSetReady(K, arg[t].nextTask, "COND_VAR_SIGNALLED")
       IN /\ Commit(s1)
          /\ woken' = IF WakesAbove(s1, arg[t].nextTask)
                      THEN woken \cup {arg[t].nextTask} ELSE woken
    /\ arg' = [arg EXCEPT ![t].ret = "true"]
    /\ pc' = [pc EXCEPT ![t] = "signal_ret"]
    /\ UNCHANGED <<holds, opsLeft, tickCount, semHist>>

condVarSignalReturn(t) == Return(t, "signal_ret")

\* condVarBroadcast from its entry to the test of the waitQueue
condVarBroadcast(t, c) ==
    /\ CanCall(t)
    /\ opsLeft' = [opsLeft EXCEPT ![t] = @ - 1]
    /\ arg' = [arg EXCEPT ![t] =
                 [NoArg EXCEPT !.cv = c,
                               !.ret = IF taskQueueEmpty(cond[c].waitQueue)
                                       THEN "false" ELSE "NONE"]]
    /\ pc' = [pc EXCEPT ![t] = IF taskQueueEmpty(cond[c].waitQueue)
                               THEN "broadcast_ret" ELSE "broadcast_get"]
    /\ UNCHANGED <<kernelVars, holds, tickCount, woken, semHist>>

\* the loop test: pTask = taskQueueGet(&pCondVar->waitQueue)
condVarBroadcastGet(t) ==
    /\ Executes(t)
    /\ pc[t] = "broadcast_get"
    /\ LET c == arg[t].cv
           pTask == taskQueuePeek(cond[c].waitQueue)
       IN /\ Commit([K EXCEPT !.cond[c].waitQueue = IF @ = <<>> THEN @ ELSE Tail(@)])
          /\ arg' = [a \in AllTasks |->
                        IF a = t
                        THEN [arg[a] EXCEPT !.nextTask = pTask,
                                            !.ret = IF pTask = NULL THEN "true" ELSE @]
                        ELSE IF a = pTask THEN [arg[a] EXCEPT !.given = TRUE]
                        ELSE arg[a]]
          /\ pc' = [pc EXCEPT ![t] = IF pTask # NULL
                                     THEN "broadcast_set" ELSE "broadcast_ret"]
    /\ UNCHANGED <<holds, opsLeft, tickCount, woken, semHist>>

\* the loop body: taskSetReady(pTask, COND_VAR_SIGNALLED) unless pTask is suspended
condVarBroadcastSetReady(t) ==
    /\ Executes(t)
    /\ pc[t] = "broadcast_set"
    /\ LET pTask == arg[t].nextTask
           s1 == IF task[pTask].status # "SUSPENDED"
                 THEN taskSetReady(K, pTask, "COND_VAR_SIGNALLED")
                 ELSE K
       IN /\ Commit(s1)
          /\ woken' = IF WakesAbove(s1, pTask) THEN woken \cup {pTask} ELSE woken
    /\ pc' = [pc EXCEPT ![t] = "broadcast_get"]
    /\ UNCHANGED <<arg, holds, opsLeft, tickCount, semHist>>

condVarBroadcastReturn(t) == Return(t, "broadcast_ret")

\* ------------------------------------------------------------------------
\* The application tasks lock the mutex of a condition variable, wait on the
\* condition variable, signal it, unlock the mutex and sleep
\* ------------------------------------------------------------------------
CondWaitChoices == {ShortWait, TASK_MAX_WAIT}

NextCond ==
    \/ schedulerStart
    \/ SYSTICK_HANDLER(MaxCondTicks)
    \/ timerTaskBlock
    \/ timerTaskYield
    \/ \E t \in UserTasks : taskSleep(t)
    \/ \E t \in UserTasks : taskSleepYield(t)
    \/ \E t \in UserTasks : taskSleepReturn(t)
    \/ \E t \in UserTasks, m \in SingleMutex : mutexLock(t, m, TASK_MAX_WAIT)
    \/ \E t \in UserTasks : mutexLockBlock(t)
    \/ \E t \in UserTasks : mutexLockYield(t)
    \/ \E t \in UserTasks : mutexLockWake(t)
    \/ \E t \in UserTasks : mutexLockReturn(t)
    \/ \E t \in UserTasks, m \in SingleMutex : mutexUnlock(t, m)
    \/ \E t \in UserTasks : mutexUnlockYield(t)
    \/ \E t \in UserTasks : mutexUnlockReturn(t)
    \/ \E t \in UserTasks, c \in CondVars, w \in CondWaitChoices : condVarWait(t, c, w)
    \/ \E t \in UserTasks : condVarWaitUnlockYield(t)
    \/ \E t \in UserTasks : condVarWaitAdd(t)
    \/ \E t \in UserTasks : condVarWaitBlock(t)
    \/ \E t \in UserTasks : condVarWaitYield(t)
    \/ \E t \in UserTasks : condVarWaitLock(t)
    \/ \E t \in UserTasks : condVarWaitLockBlock(t)
    \/ \E t \in UserTasks : condVarWaitLockYield(t)
    \/ \E t \in UserTasks : condVarWaitLockWake(t)
    \/ \E t \in UserTasks : condVarWaitResult(t)
    \/ \E t \in UserTasks : condVarWaitReturn(t)
    \/ \E t \in UserTasks, c \in CondVars : condVarSignal(t, c)
    \/ \E t \in UserTasks : condVarSignalSetReady(t)
    \/ \E t \in UserTasks : condVarSignalReturn(t)
    \/ \E t \in UserTasks, c \in CondVars : condVarBroadcast(t, c)
    \/ \E t \in UserTasks : condVarBroadcastGet(t)
    \/ \E t \in UserTasks : condVarBroadcastSetReady(t)
    \/ \E t \in UserTasks : condVarBroadcastReturn(t)

InitCond ==
    /\ InitCommon
    /\ timer = InitKernel.timer
    /\ opsLeft = [t \in AllTasks |-> MaxCondOps]

SpecCond == InitCond /\ [][NextCond]_vars

\* ------------------------------------------------------------------------
\* Tasks of equal priority that loop calling taskYield
\* ------------------------------------------------------------------------
equalPriority ==
    [t \in AllTasks |-> IF t \in UserTasks THEN 1 ELSE definedPriority[t]]

\* main() defines T1, T2, T3 with the same priority and starts them in
\* StartOrder
InitYieldKernel ==
    StartAll([InitKernel EXCEPT
                 !.task = [t \in AllTasks |-> InitTcb(equalPriority[t])],
                 !.taskPool = [readyQueue |-> <<>>, blockedQueue |-> <<>>,
                               currentTask |-> NULL]],
             StartOrder)

\* one turn of the loop of t: a call of taskYield
taskYieldCall(t) ==
    /\ CanCall(t)
    /\ Commit(scheduleNextTask(K))
    /\ opsLeft' = [opsLeft EXCEPT ![t] = @ - 1]
    /\ woken' = {}
    /\ UNCHANGED <<pc, arg, holds, tickCount, semHist>>

NextYield ==
    \/ schedulerStart
    \/ timerTaskBlock
    \/ timerTaskYield
    \/ \E t \in UserTasks : taskYieldCall(t)
    \/ SYSTICK_HANDLER(MaxYieldTicks)

InitYield ==
    /\ task = InitYieldKernel.task
    /\ taskPool = InitYieldKernel.taskPool
    /\ mutex = InitKernel.mutex
    /\ sem = InitKernel.sem
    /\ msgq = InitKernel.msgq
    /\ cond = InitKernel.cond
    /\ wakeRecord = InitKernel.wakeRecord
    /\ timer = InitKernel.timer
    /\ timerList = InitKernel.timerList
    /\ timeoutHandlerQueue = InitKernel.timeoutHandlerQueue
    /\ pc = [t \in AllTasks |-> "entry"]
    /\ arg = [t \in AllTasks |-> NoArg]
    /\ holds = [t \in AllTasks |-> {}]
    /\ tickCount = 0
    /\ woken = {}
    /\ semHist = [net |-> 0, waited |-> FALSE]
    /\ opsLeft = [t \in AllTasks |-> MaxYields]

SpecYield == InitYield /\ [][NextYield]_vars

\* ------------------------------------------------------------------------
\* Tasks that sleep
\* ------------------------------------------------------------------------
\* main() defines T1, T2, T3 with the priorities p and starts them in
\* StartOrder
InitSleepKernel(p) ==
    StartAll([InitKernel EXCEPT
                 !.task = [t \in AllTasks |->
                              InitTcb(IF t \in UserTasks THEN p[t]
                                      ELSE definedPriority[t])],
                 !.taskPool = [readyQueue |-> <<>>, blockedQueue |-> <<>>,
                               currentTask |-> NULL]],
             StartOrder)

\* taskSleep(n), up to its taskYield; the call records its length and the
\* tick count at the call
taskSleepTicks(t, n) ==
    /\ CanCall(t)
    /\ Commit(taskBlock(K, t, "SLEEP", n))
    /\ pc' = [pc EXCEPT ![t] = "sleep_yield"]
    /\ arg' = [arg EXCEPT ![t].w = n, ![t].reg = tickCount]
    /\ opsLeft' = [opsLeft EXCEPT ![t] = @ - 1]
    /\ UNCHANGED <<holds, tickCount, woken, semHist>>

NextSleep ==
    \/ schedulerStart
    \/ timerTaskBlock
    \/ timerTaskYield
    \/ \E t \in UserTasks, n \in SleepChoices : taskSleepTicks(t, n)
    \/ \E t \in UserTasks : taskSleepYield(t)
    \/ \E t \in UserTasks : taskSleepReturn(t)
    \/ SYSTICK_HANDLER(MaxSleepTicks)

InitSleep ==
    /\ \E p \in [UserTasks -> SleepPriorities] :
          /\ task = InitSleepKernel(p).task
          /\ taskPool = InitSleepKernel(p).taskPool
    /\ mutex = InitKernel.mutex
    /\ sem = InitKernel.sem
    /\ msgq = InitKernel.msgq
    /\ cond = InitKernel.cond
    /\ wakeRecord = InitKernel.wakeRecord
    /\ timer = InitKernel.timer
    /\ timerList = InitKernel.timerList
    /\ timeoutHandlerQueue = InitKernel.timeoutHandlerQueue
    /\ pc = [t \in AllTasks |-> "entry"]
    /\ arg = [t \in AllTasks |-> NoArg]
    /\ holds = [t \in AllTasks |-> {}]
    /\ tickCount = 0
    /\ woken = {}
    /\ semHist = [net |-> 0, waited |-> FALSE]
    /\ opsLeft = [t \in AllTasks |-> MaxSleepOps]

SpecSleep == InitSleep /\ [][NextSleep]_vars

\* ------------------------------------------------------------------------
\* The application tasks lock two mutexes, without waiting or without
\* timeout, unlock the mutexes they hold, and sleep
\* ------------------------------------------------------------------------
InitInherit ==
    /\ InitCommon
    /\ timer = InitKernel.timer
    /\ opsLeft = [t \in AllTasks |-> MaxInheritOps]

NextInherit ==
    \/ schedulerStart
    \/ SYSTICK_HANDLER(MaxInheritTicks)
    \/ timerTaskBlock
    \/ timerTaskYield
    \/ \E t \in UserTasks : taskSleep(t)
    \/ \E t \in UserTasks : taskSleepYield(t)
    \/ \E t \in UserTasks : taskSleepReturn(t)
    \/ \E t \in UserTasks, m \in Mutexes, w \in {TASK_NO_WAIT, TASK_MAX_WAIT} :
            m \notin holds[t] /\ mutexLock(t, m, w)
    \/ \E t \in UserTasks : mutexLockBlock(t)
    \/ \E t \in UserTasks : mutexLockYield(t)
    \/ \E t \in UserTasks : mutexLockWake(t)
    \/ \E t \in UserTasks : mutexLockReturn(t)
    \/ \E t \in UserTasks, m \in Mutexes :
            m \in holds[t] /\ mutexUnlock(t, m)
    \/ \E t \in UserTasks : mutexUnlockYield(t)
    \/ \E t \in UserTasks : mutexUnlockReturn(t)

SpecInherit == InitInherit /\ [][NextInherit]_vars

\* ------------------------------------------------------------------------
\* The application uses timers: main() starts timers of either mode, T1
\* starts a timer as well, and every task sleeps
\* ------------------------------------------------------------------------
InitTimers ==
    /\ InitCommon
    /\ timer \in [TwoTimers -> {InitTimer(mode) : mode \in TimerModes}]
    /\ opsLeft = [t \in AllTasks |-> IF t = "T1" THEN MaxTimerOps ELSE 0]

\* the tick interrupt, as long as no fault has stopped the system
timersTick == ~Faulted /\ SYSTICK_HANDLER(MaxTimerTicks)

NextTimers ==
    \/ schedulerStart
    \/ \E r \in TwoTimers, n \in TimerIntervals : mainTimerStartTicks(r, n)
    \/ timersTick
    \/ timerTaskTest
    \/ timeoutHandlerQueuePopRead
    \/ timeoutHandlerQueuePopHead
    \/ timerTaskHandler
    \/ timerTaskWait
    \/ timerTaskYield
    \/ \E t \in UserTasks, r \in TwoTimers, n \in TimerIntervals : timerStartCall(t, r, n)
    \/ \E t \in UserTasks : timerListNodeAddRead(t)
    \/ \E t \in UserTasks : timerListNodeAddHead(t)
    \/ \E t \in UserTasks : timerListNodeAddLink(t)
    \/ \E t \in UserTasks : timerStartReturn(t)
    \/ \E t \in UserTasks : taskSleep(t)
    \/ \E t \in UserTasks : taskSleepYield(t)
    \/ \E t \in UserTasks : taskSleepReturn(t)

SpecTimers == InitTimers /\ [][NextTimers]_vars

\* ------------------------------------------------------------------------
\* Properties of the mutex
\* ------------------------------------------------------------------------
\* t's mutexLock of m returns RET_SUCCESS in this step
Acquires(t, m) == m \in holds'[t] /\ m \notin holds[t]

\* C1: at most one task is between a mutexLock of a mutex that returned
\* RET_SUCCESS and its mutexUnlock that returned RET_SUCCESS, and a mutexLock
\* that returns RET_SUCCESS to a task leaves the mutex locked with that task
\* as ownerTask.
C1_MutualExclusion ==
    [][\A m \in Mutexes :
          /\ Cardinality({t \in AllTasks : m \in holds'[t]}) <= 1
          /\ \A t \in AllTasks :
                Acquires(t, m) => mutex'[m].locked /\ mutex'[m].ownerTask = t]_vars

\* a waiter has been handed the mutex and its mutexLock returns RET_SUCCESS
C1_Witness ==
    \E t \in UserTasks :
        /\ pc[t] = "lock_ret"
        /\ arg[t].ret = "RET_SUCCESS"
        /\ task[t].wakeupReason = "MUTEX_LOCKED"
        /\ arg[t].m \in holds[t]

RunningTasks == {t \in AllTasks : task[t].status = "RUNNING"}

\* the locations between the marking of a task as BLOCKED and its taskYield
YieldAfterBlock ==
    {"timer_yield", "sleep_yield", "lock_yield", "take_yield", "send_yield", "recv_yield",
     "wait_yield"}

MadeReady(s0, s1) ==
    {r \in AllTasks : s0.task[r].status # "READY" /\ WakesAbove(s1, r)}

NoBetterReady(s, r) ==
    \A x \in AllTasks \ {r} :
        s.task[x].status = "READY" => s.task[x].priority > s.task[r].priority

RunsNext(r) == taskPool'.currentTask = r /\ task'[r].status = "RUNNING"

TickStep == tickCount' # tickCount

YieldLocs == {"timer_yield", "sleep_yield", "lock_yield", "unlock_yield", "take_yield"}

YieldStep == \E t \in AllTasks : pc[t] \in YieldLocs /\ pc'[t] # pc[t]

\* C3: a task r woken with a better priority than the RUNNING task is the
\* RUNNING task after the next completed scheduleNextTask, provided no other
\* READY task has a priority better than or equal to r's.
C3_PriorityPreemption ==
    [][/\ TickStep =>
            LET s == tickService(K)
            IN \A r \in woken \cup MadeReady(K, s) :
                  (s.task[r].status = "READY" /\ NoBetterReady(s, r)) => RunsNext(r)
       /\ YieldStep =>
            \A r \in woken :
                  (task[r].status = "READY" /\ NoBetterReady(K, r)) => RunsNext(r)]_vars

\* C4: locked is true exactly when ownerTask is not NULL.
C4_LockedIffOwner ==
    \A m \in Mutexes : mutex[m].locked <=> (mutex[m].ownerTask # NULL)

\* a mutex is locked with a waiter, and a mutex has been freed again
C4_Witness ==
    \E m \in Mutexes :
        \/ mutex[m].locked /\ mutex[m].waitQueue # <<>>
        \/ /\ ~mutex[m].locked
           /\ \E t \in UserTasks :
                 pc[t] = "unlock_ret" /\ arg[t].m = m /\ arg[t].ret = "RET_SUCCESS"

\* ------------------------------------------------------------------------
\* Priority inheritance
\* ------------------------------------------------------------------------
\* C5: the owner of a mutex is at least as urgent as every task on the
\* mutex's waitQueue, also when tasks hold several mutexes.
C5_InheritanceBoundsInversion ==
    \A m \in Mutexes : \A L \in AllTasks, H \in AllTasks :
        (mutex[m].ownerTask = L /\ InQueue(mutex[m].waitQueue, H))
            => task[L].priority <= task[H].priority

\* t's mutexUnlock of m returns RET_SUCCESS in this step
Releases(t, m) ==
    /\ pc[t] = "entry"
    /\ pc'[t] \in {"unlock_yield", "unlock_ret"}
    /\ arg'[t].m = m
    /\ arg'[t].ret = "RET_SUCCESS"

\* C6: a mutexUnlock by the owner with a non-empty waitQueue leaves the mutex
\* locked with the head waiter as ownerTask, no other task's mutexLock
\* returns RET_SUCCESS while the mutex has an owner, and the pending
\* mutexLock of the waiter that was handed the mutex returns RET_SUCCESS.
C6_OwnershipHandover ==
    [][\A m \in Mutexes, t \in UserTasks :
          /\ (Releases(t, m) /\ mutex[m].waitQueue # <<>>) =>
                /\ mutex'[m].locked
                /\ mutex'[m].ownerTask = Head(mutex[m].waitQueue)
          /\ (Acquires(t, m) /\ mutex[m].ownerTask # NULL) => mutex[m].ownerTask = t
          /\ (pc[t] = "lock_wake" /\ pc'[t] = "lock_ret" /\ arg[t].m = m /\ arg[t].given)
                => arg'[t].ret = "RET_SUCCESS"]_vars

OwnsNoMutex(t) == \A m \in Mutexes : mutex[m].ownerTask # t

\* C7: a task that owns no mutex has the priority it was defined with, also
\* after it held two mutexes that were each contended by a better-priority
\* waiter.
C7_PriorityReverted ==
    \A t \in AllTasks : OwnsNoMutex(t) => task[t].priority = definedPriority[t]

\* ------------------------------------------------------------------------
\* Properties of the semaphore
\* ------------------------------------------------------------------------
\* C8: 0 <= count <= maxCount for every semaphore, in every state between
\* two statements of semaphoreTake and semaphoreGive.
C8_CountInRange ==
    \A x \in Semaphores : 0 <= sem[x].count /\ sem[x].count <= sem[x].maxCount

\* C9: no task is BLOCKED on the waitQueue of a semaphore whose count is
\* greater than 0.
C9_NoLostWakeup ==
    \A x \in Semaphores :
        sem[x].count > 0 =>
            ~\E t \in AllTasks :
                InQueue(sem[x].waitQueue, t) /\ task[t].status = "BLOCKED"

\* no call of semaphoreTake or semaphoreGive is in progress
Quiescent == \A t \in UserTasks : pc[t] \in {"entry", "sleep_yield", "sleep_ret"}

\* the semaphoreTake of a waiter that semaphoreGive took off the waitQueue
\* returns RET_SUCCESS
C10_WaiterSucceeds ==
    \A t \in UserTasks :
        (pc[t] = "take_ret" /\ arg[t].given) => arg[t].ret = "RET_SUCCESS"

\* without waiters, count is the initial count plus the successful gives
\* minus the successful takes
C10_CountIsNet ==
    (Quiescent /\ ~semHist.waited) =>
        \A x \in Semaphores : sem[x].count = InitialCount + semHist.net

\* C10: a semaphoreGive that finds a waiter leaves count unchanged and wakes
\* the head waiter, and only it, with SEMAPHORE_TAKEN; that waiter's
\* semaphoreTake returns RET_SUCCESS; a give at count = maxCount returns
\* RET_NOSEM and changes nothing; and with no waiters and no timeouts count
\* is the initial count plus the successful gives minus the successful takes.
C10_DirectTransfer ==
    [][/\ \A t \in UserTasks :
            (pc[t] = "give_set" /\ pc'[t] = "give_ret") =>
                /\ sem'[arg[t].m].count = sem[arg[t].m].count
                /\ task'[arg[t].nextTask].wakeupReason = "SEMAPHORE_TAKEN"
                /\ \A u \in AllTasks \ {arg[t].nextTask} : task'[u] = task[u]
       /\ \A t \in UserTasks, x \in Semaphores :
            (pc[t] = "entry" /\ pc'[t] = "give_ret" /\ arg'[t].m = x)
                => (sem[x].count = sem[x].maxCount /\ arg'[t].ret = "RET_NOSEM" /\ sem' = sem)
       /\ C10_WaiterSucceeds'
       /\ C10_CountIsNet']_vars

\* ------------------------------------------------------------------------
\* Properties of the message queue
\* ------------------------------------------------------------------------
\* no task is inside msgQueueSend or msgQueueReceive
MsgQuiescent == \A t \in UserTasks : pc[t] \in {"entry", "sleep_yield", "sleep_ret"}

\* C11: the items returned by the successful msgQueueReceive calls are the
\* items accepted by the successful msgQueueSend calls, none duplicated and
\* none overwritten: whenever no call is in progress every received item is
\* one of the sent items and no sent item has been received twice (every send
\* of a behaviour sends a different item).  The order of the items, which the
\* claim also fixes, is left free here.
C11_RoundTrip ==
    \A q \in MsgQueues :
        MsgQuiescent =>
            LET received == msgq[q].received
                sent == msgq[q].sent
            IN /\ \A i \in 1..Len(received) : \E j \in 1..Len(sent) : received[i] = sent[j]
               /\ \A i, j \in 1..Len(received) : received[i] = received[j] => i = j

\* C12: 0 <= itemCount <= queueLength for every message queue, in every state.
C12_ItemCountInRange ==
    \A q \in MsgQueues :
        /\ 0 <= msgq[q].itemCount
        /\ msgq[q].itemCount <= msgq[q].queueLength

\* t leaves its wait inside a call at location loc with return code ret
WakesWith(t, loc, ret) == pc[t] = loc /\ pc'[t] # loc /\ arg'[t].ret = ret

\* C13: a producer that a msgQueueReceive woke with MSG_QUEUE_SPACE_AVAILABE
\* does not return -ETIMEOUT from msgQueueSend, and a consumer that a
\* msgQueueSend woke with MSG_QUEUE_DATA_AVAILABLE does not return -ETIMEOUT
\* from msgQueueReceive.
C13_TimeoutOnlyAfterTimeout ==
    [][\A t \in UserTasks :
          /\ WakesWith(t, "send_wake", "-ETIMEOUT")
                => wakeRecord[t] # "MSG_QUEUE_SPACE_AVAILABE"
          /\ WakesWith(t, "recv_wake", "-ETIMEOUT")
                => wakeRecord[t] # "MSG_QUEUE_DATA_AVAILABLE"]_vars

\* ------------------------------------------------------------------------
\* Properties of the condition variable
\* ------------------------------------------------------------------------
\* C14: condVarWait returns false if the wait on the condition variable ended
\* by timeout and true if it ended by condVarSignal or condVarBroadcast.
C14_ResultTellsTimeout ==
    [][\A t \in UserTasks :
          (pc[t] = "wait_result" /\ pc'[t] = "wait_ret") =>
              /\ arg[t].waitEnd = "WAIT_TIMEOUT" => arg'[t].ret = "false"
              /\ arg[t].waitEnd = "COND_VAR_SIGNALLED" => arg'[t].ret = "true"]_vars

\* C15: when condVarWait returns, pMutex is locked and its ownerTask is the
\* caller, which owned pMutex on entry.
C15_OwnsMutexOnReturn ==
    \A t \in UserTasks :
        pc[t] = "wait_ret" =>
            /\ mutex[arg[t].m].locked
            /\ mutex[arg[t].m].ownerTask = t

\* u has called condVarWait(c, TASK_MAX_WAIT), has released pMutex, and no
\* condVarSignal or condVarBroadcast has selected it yet
InCondWait(u, c) ==
    /\ arg[u].cv = c
    /\ arg[u].w = TASK_MAX_WAIT
    /\ pc[u] \in {"wait_unlock_yield", "wait_add", "wait_block", "wait_yield"}
    /\ ~arg[u].given

\* C16: a condVarSignal by a task that holds pMutex, called while a task is
\* in condVarWait with an infinite wait, selects such a waiter.
C16_NoLostSignal ==
    [][\A t \in UserTasks, c \in CondVars :
          (/\ pc[t] = "entry"
           /\ pc'[t] \in {"signal_set", "signal_ret"}
           /\ cond[c].pMutex \in holds[t]
           /\ \E u \in UserTasks : InCondWait(u, c))
            => \E u \in UserTasks : InCondWait(u, c) /\ arg'[u].given]_vars

\* ------------------------------------------------------------------------
\* Properties of the wake-up path
\* ------------------------------------------------------------------------
\* the places where a woken task tests its wakeupReason
\* (semaphore.c:66, mutex.c:92, messageQueue.c:87 and :134)
ReasonTests == {"take_wake", "lock_wake", "send_wake", "recv_wake"}

\* C17: the wakeupReason a task observes when it next runs is the reason of
\* the wake that made it READY.
C17_ObservedReasonIsWakeReason ==
    \A t \in UserTasks :
        (/\ pc[t] \in ReasonTests
         /\ Executes(t)
         /\ wakeRecord[t] # "WAKEUP_REASON_NONE")
            => task[t].wakeupReason = wakeRecord[t]

\* the queues of the kernel: the ready queue, the blocked-timeout list and
\* the wait queue of every primitive, each named by its field and its owner
AllQueues ==
    {<<"readyQueue", "taskPool">>, <<"blockedQueue", "taskPool">>}
        \cup {<<"waitQueue", m>> : m \in DOMAIN mutex}
        \cup {<<"waitQueue", x>> : x \in DOMAIN sem}
        \cup {<<"producerWaitQueue", q>> : q \in DOMAIN msgq}
        \cup {<<"consumerWaitQueue", q>> : q \in DOMAIN msgq}
        \cup {<<"waitQueue", c>> : c \in DOMAIN cond}

QueueNodes(n) ==
    CASE n[1] = "readyQueue" -> taskPool.readyQueue
      [] n[1] = "blockedQueue" -> taskPool.blockedQueue
      [] n[1] = "producerWaitQueue" -> msgq[n[2]].producerWaitQueue
      [] n[1] = "consumerWaitQueue" -> msgq[n[2]].consumerWaitQueue
      [] n[2] \in DOMAIN mutex -> mutex[n[2]].waitQueue
      [] n[2] \in DOMAIN sem -> sem[n[2]].waitQueue
      [] OTHER -> cond[n[2]].waitQueue

\* C18: no task is a member of two queues at once, and the RUNNING task is
\* on no queue.
C18_OneQueuePerTask ==
    \A t \in AllTasks :
        /\ \A q1, q2 \in AllQueues :
              (InQueue(QueueNodes(q1), t) /\ InQueue(QueueNodes(q2), t)) => q1 = q2
        /\ task[t].status = "RUNNING" =>
              \A q \in AllQueues : ~InQueue(QueueNodes(q), t)

\* the wait queues of the primitives
WaitQueues ==
    AllQueues \ {<<"readyQueue", "taskPool">>, <<"blockedQueue", "taskPool">>}

\* t is inside a blocking call and the tick service ended its wait
TimedOut(t) ==
    /\ wakeRecord[t] = "WAIT_TIMEOUT"
    /\ pc[t] \in ReasonTests \cup YieldAfterBlock \cup {"wait_lock"}

\* C19: a waiter woken by the tick service with WAIT_TIMEOUT is on no wait
\* queue of a primitive, no operation selects it afterwards, and no unit,
\* ownership or signal is delivered to it: its WAIT_TIMEOUT is not replaced.
C19_TimeoutDetachesWaiter ==
    [][\A u \in UserTasks :
          /\ TimedOut(u)' => \A n \in WaitQueues : ~InQueue(QueueNodes(n), u)'
          /\ (TimedOut(u) /\ ~arg[u].given) => ~arg'[u].given
          /\ (TimedOut(u) /\ task[u].wakeupReason = "WAIT_TIMEOUT")
                => task'[u].wakeupReason = "WAIT_TIMEOUT"]_vars

\* ------------------------------------------------------------------------
\* Properties of the scheduler among tasks of equal priority
\* ------------------------------------------------------------------------
\* the task started after t, cyclically
StartedAfter(t) ==
    LET i == CHOOSE k \in 1..Len(StartOrder) : StartOrder[k] = t
    IN StartOrder[(i % Len(StartOrder)) + 1]

\* C20: with T1, T2, T3 of equal priority started in that order and looping
\* on taskYield, the first of them to run is T1, and every taskYield and
\* every tick interrupt passes the CPU from the RUNNING task to the one
\* started after it: the RUNNING sequence is T1, T2, T3, T1, ...
C20_FifoAmongEquals ==
    [][/\ (taskPool.currentTask \notin UserTasks
             /\ taskPool.currentTask' \in UserTasks)
            => taskPool.currentTask' = Head(StartOrder)
       /\ (taskPool.currentTask \in UserTasks
             /\ (opsLeft' # opsLeft \/ tickCount' # tickCount))
            => /\ taskPool.currentTask' = StartedAfter(taskPool.currentTask)
               /\ task'[taskPool.currentTask'].status = "RUNNING"
               /\ task'[taskPool.currentTask].status = "READY"]_vars

\* T1 runs again after T2 and T3 have run, with yields and a tick on the way
C20_Witness ==
    /\ taskPool.currentTask = "T1"
    /\ task["T1"].status = "RUNNING"
    /\ tickCount > 0
    /\ \A t \in UserTasks : opsLeft[t] < MaxYields

\* ------------------------------------------------------------------------
\* Properties of taskSleep
\* ------------------------------------------------------------------------
\* t has called taskSleep and has not been woken since
Asleep(t) ==
    /\ pc[t] \in {"sleep_yield", "sleep_ret"}
    /\ task[t].status = "BLOCKED"
    /\ task[t].blockedReason = "SLEEP"

\* after the step no task other than t that is READY or RUNNING has a
\* priority value below / not above the one of t
NoneBetterAfter(t) ==
    \A u \in AllTasks \ {t} :
        task'[u].status \in {"READY", "RUNNING"} => task'[u].priority >= task'[t].priority

OnlyWorseAfter(t) ==
    \A u \in AllTasks \ {t} :
        task'[u].status \in {"READY", "RUNNING"} => task'[u].priority > task'[t].priority

\* the step is the N-th tick after a call of t that recorded its length N
NthTick(t) ==
    /\ arg[t].w > 0
    /\ tickCount' # tickCount
    /\ tickCount' = arg[t].reg + arg[t].w

\* the step is a tick after a call of t whose length is not recorded
OtherSleepTick(t) ==
    /\ arg[t].w = 0
    /\ tickCount' # tickCount

\* a sleeping task stays BLOCKED in every step but the N-th tick after its
\* call, which makes it READY with SLEEP_TIME_TIMEOUT
SleepsExactly(t) ==
    Asleep(t) =>
        IF NthTick(t)
        THEN /\ task'[t].status \in {"READY", "RUNNING"}
             /\ task'[t].wakeupReason = "SLEEP_TIME_TIMEOUT"
        ELSE OtherSleepTick(t) \/ task'[t].status = "BLOCKED"

\* C21 as stated: a task that sleeps N ticks stays BLOCKED during the first
\* N-1 ticks, is made READY with SLEEP_TIME_TIMEOUT by the N-th tick, and is
\* RUNNING after that tick if no task of higher priority is ready.
C21_ExactSleep ==
    [][\A t \in UserTasks :
          /\ SleepsExactly(t)
          /\ (Asleep(t) /\ NthTick(t) /\ NoneBetterAfter(t))
                => /\ taskPool.currentTask' = t
                   /\ task'[t].status = "RUNNING"]_vars

\* C21, amended: as above, but the task is RUNNING after the N-th tick if
\* every other READY or RUNNING task has a strictly worse priority.
C21_ExactSleepAmongWorse ==
    [][\A t \in UserTasks :
          /\ SleepsExactly(t)
          /\ (Asleep(t) /\ NthTick(t) /\ OnlyWorseAfter(t))
                => /\ taskPool.currentTask' = t
                   /\ task'[t].status = "RUNNING"]_vars

\* ------------------------------------------------------------------------
\* Properties of the software timers
\* ------------------------------------------------------------------------
\* the handlers the step has appended to timeoutHandlerQueue
Pushed ==
    SubSeq(timeoutHandlerQueue', Len(timeoutHandlerQueue) + 1, Len(timeoutHandlerQueue'))

\* the step leaves the handlers that were queued in place
OnlyAppends ==
    /\ Len(timeoutHandlerQueue') >= Len(timeoutHandlerQueue)
    /\ SubSeq(timeoutHandlerQueue', 1, Len(timeoutHandlerQueue)) = timeoutHandlerQueue

\* how often the step has pushed the handler of timer r
PushCount(r) == Cardinality({i \in DOMAIN Pushed : Pushed[i] = r})

\* a timerStart of r has marked it running and has not yet put it on
\* timerList
Starting(r) == \E t \in UserTasks : pc[t] \in {"add_read", "add_head"} /\ arg[t].m = r

\* the coming tick is due to expire r: r has been started and the tick is
\* the N-th (SINGLE_SHOT) or a multiple of N (PERIODIC) since
Due(r) ==
    /\ timer[r].isRunning
    /\ ~Starting(r)
    /\ IF timer[r].mode = "TIMER_MODE_PERIODIC"
       THEN (timer[r].age + 1) % timer[r].intervalTicks = 0
       ELSE timer[r].age + 1 = timer[r].intervalTicks

\* C22: a timer started with N ticks and not stopped has its handler pushed
\* at exactly the ticks N, 2N, ... after its start if it is PERIODIC, and at
\* exactly the N-th tick and never again if it is SINGLE_SHOT, after which it
\* is not running and not on timerList; no other tick pushes its handler.
C22_ExpirySchedule ==
    [][tickCount' # tickCount =>
          \A r \in TwoTimers :
              /\ PushCount(r) = IF Due(r) THEN 1 ELSE 0
              /\ (Due(r) /\ timer[r].mode = "TIMER_MODE_SINGLE_SHOT")
                    => /\ ~timer'[r].isRunning
                       /\ ~InQueue(timerList', r)]_vars

\* C23: every change of timeoutHandlerQueue is a push by the tick that keeps
\* the queued handlers, or the removal of exactly its head by timerTask, which
\* then invokes that handler: no handler is lost, none runs twice, and they
\* run in the order of their expiries.
C23_EachExpiryInvokedOnce ==
    [][timeoutHandlerQueue' # timeoutHandlerQueue =>
          \/ tickCount' # tickCount /\ OnlyAppends
          \/ /\ pc'["timerTask"] = "handler"
             /\ timeoutHandlerQueue # <<>>
             /\ timeoutHandlerQueue' = Tail(timeoutHandlerQueue)
             /\ arg'["timerTask"].handler = Head(timeoutHandlerQueue)]_vars

\* C29: while timerTask is BLOCKED waiting for a timer timeout,
\* timeoutHandlerQueue is empty.
C29_NoMissedTimerWake ==
    (/\ task["timerTask"].status = "BLOCKED"
     /\ task["timerTask"].blockedReason = "WAIT_FOR_TIMER_TIMEOUT")
        => timeoutHandlerQueue = <<>>

\* ------------------------------------------------------------------------
\* Properties of the queue order
\* ------------------------------------------------------------------------
\* the nodes of queue q are in ascending order of their tasks' priorities
Ascending(q) ==
    \A i, j \in DOMAIN q : i < j => task[q[i]].priority <= task[q[j]].priority

\* C24: the ready queue is ordered by ascending current priority in every
\* reachable state, and once the scheduler has started its head is a READY
\* task that no READY task beats.
C24_ReadyQueueOrdered ==
    /\ Ascending(taskPool.readyQueue)
    /\ (Started /\ taskPool.readyQueue # <<>>) =>
          LET head == Head(taskPool.readyQueue)
          IN /\ task[head].status = "READY"
             /\ \A u \in AllTasks :
                   task[u].status = "READY" => task[head].priority <= task[u].priority

\* C25: while a mutex has a saved ownerDefaultPriority (its owner is
\* boosted), some task on its waitQueue has the owner's current priority.
C25_BoostTiedToWaiter ==
    \A m \in Mutexes :
        mutex[m].ownerDefaultPriority # NO_DEFAULT_PRIORITY =>
            \E i \in DOMAIN mutex[m].waitQueue :
                task[mutex[m].waitQueue[i]].priority = task[mutex[m].ownerTask].priority

\* ------------------------------------------------------------------------
\* Properties of scheduleNextTask
\* ------------------------------------------------------------------------
\* scheduleNextTask, called in kernel state s0, leaves the tasks and the task
\* pool as they are if the ready queue is empty or the current task is
\* RUNNING and the head of the ready queue has a strictly greater priority
\* value; otherwise the head of the ready queue is the RUNNING current task
SchedulesFrom(s0) ==
    LET readyQueue == s0.taskPool.readyQueue
        cur == s0.taskPool.currentTask
    IN IF \/ readyQueue = <<>>
          \/ /\ s0.task[cur].status = "RUNNING"
             /\ s0.task[Head(readyQueue)].priority > s0.task[cur].priority
       THEN /\ task' = s0.task
            /\ taskPool' = s0.taskPool
       ELSE /\ taskPool'.currentTask = Head(readyQueue)
            /\ task'[Head(readyQueue)].status = "RUNNING"

\* C27: scheduleNextTask changes nothing when the ready queue is empty or
\* the RUNNING current task is strictly better than the head of the ready
\* queue, and makes that head the RUNNING current task in every other case,
\* in taskYield and in the tick handler, which calls it after its service.
C27_ScheduleFrame ==
    [][/\ YieldStep => SchedulesFrom(K)
       /\ TickStep => SchedulesFrom(tickService(K))]_vars

\* a tick has left the RUNNING task in place in front of a worse READY task,
\* after a sleeper of that task's priority had been switched in and out
C27_Witness ==
    /\ tickCount > 0
    /\ taskPool.readyQueue # <<>>
    /\ LET cur == taskPool.currentTask
           head == Head(taskPool.readyQueue)
       IN /\ cur \in UserTasks
          /\ task[cur].status = "RUNNING"
          /\ task[cur].wakeupReason = "SLEEP_TIME_TIMEOUT"
          /\ task[head].status = "READY"
          /\ task[head].priority > task[cur].priority

\* ------------------------------------------------------------------------
\* Properties of mutexUnlock called by a task that is not the owner
\* ------------------------------------------------------------------------
\* the step is the critical section of a mutexUnlock(m) called by t
Unlocks(t, m) ==
    /\ pc[t] = "entry"
    /\ pc'[t] \in {"unlock_yield", "unlock_ret"}
    /\ arg'[t].m = m

Selects(q) ==
    /\ tickCount' = tickCount
    /\ QueueNodes(q) # <<>>
    /\ QueueNodes(q)' = Tail(QueueNodes(q))

\* C26: a wake selects, among the tasks that are BLOCKED on the wait queue
\* of the primitive at that moment, a task whose current priority value is
\* minimal, also when inheritance has raised the priority of a queued waiter.
C26_WakeHonorsPriority ==
    [][\A q \in WaitQueues :
          Selects(q) =>
              \A i \in DOMAIN QueueNodes(q) :
                  task[QueueNodes(q)[i]].status = "BLOCKED" =>
                      task[Head(QueueNodes(q))].priority <= task[QueueNodes(q)[i]].priority]_vars

====
